---- MODULE Spec2Model ----
(***************************************************************************)
(* Model of remove_moiree.py: the batch orchestrator                       *)
(* (process_images_in_folder / process_single_image), the image            *)
(* classifier (is_grayscale), the tone recalibration (normalize_image),    *)
(* the peak detector's threshold search (pentropy_binarization), the       *)
(* masking and transform steps of remove_moire_algorithm, and the command  *)
(* line entry point; of weebcentral_scraper.py: download_image,            *)
(* download_chapter and run; and of weebcentral_gui.py: the download       *)
(* thread and the Start Download / Stop buttons of the main window.        *)
(*                                                                         *)
(* The specifications share the module's variables:                        *)
(*   Spec      the orchestrator over a small input tree, with I/O faults   *)
(*   QuietSpec the orchestrator when no copy or write fails                *)
(*   FairSpec  one invocation of the orchestrator, with the fairness the   *)
(*             thread pool's scheduling gives                              *)
(*   GraySpec  is_grayscale applied to every small image                   *)
(*   NormSpec  normalize_image applied to every small pair of arrays       *)
(*   PentSpec  pentropy_binarization applied to small images of one, two   *)
(*             and more intensities                                        *)
(*   MaskSpec  the suppression mask of remove_moire_algorithm, for every   *)
(*             grid size up to a little beyond the axis bands              *)
(*   DftSpec   the transform, masking and inverse transform of             *)
(*             remove_moire_algorithm on grids where the DFT is exact      *)
(*   MainSpec  the command line entry point, input directory there or not  *)
(*   UnitSpec  process_single_image on one file, the transform stage by    *)
(*             stage                                                       *)
(*   ImageSpec WeebCentralScraper.download_image, one call                 *)
(*   ScraperSpec WeebCentralScraper.run with its chapter tasks and a stop  *)
(*             flag that may be raised at any time                         *)
(*   GuiSpec   the main window's buttons and the download thread           *)
(***************************************************************************)
EXTENDS Integers, Sequences, FiniteSets, TLC

VARIABLES
    inp,        \* input tree: regular file -> [kind, mtime]
    out,        \* output tree: path -> file state (Absent when there is none)
    outDirs,    \* directories that exist under the output root
    faults,     \* whether copy2 / imwrite may fail in this environment
    maxWorkers, \* max_workers of the ThreadPoolExecutor
    mainpc,     \* position of the coordinator in process_images_in_folder
    walkPos,    \* index of the next directory os.walk yields
    jobs,       \* the jobs list (input entry, output path, output dir)
    units,      \* one record per submitted future, in submission order
    run,        \* number of the current invocation over the same trees
    prev,       \* per job index: the unit's outcome in the previous invocation
    out0,       \* the output tree as the current invocation found it
    gsImage,    \* GraySpec: the image handed to is_grayscale
    gsResult,   \* GraySpec: <<>> before the call, <<returned value>> after
    nmOrig,     \* NormSpec: original_gray_cv, flattened
    nmProc,     \* NormSpec: processed_gray_cv, flattened
    nmResult,   \* NormSpec: <<>> before the call, the returned array after
    peImage,    \* PentSpec: gray_image, flattened
    peResult,   \* PentSpec: <<>> before the call, <<returned pair>> after
    peTies,     \* PentSpec: which of two splits whose total entropies are
                \* equal in exact arithmetic has the greater float
    rmRows,     \* MaskSpec, DftSpec: rows_fft
    rmCols,     \* MaskSpec, DftSpec: cols_fft
    rmPeaks,    \* MaskSpec, DftSpec: the pattern of freq_pan (the Peak Mask)
    rmImage,    \* DftSpec: gray_image_input, a sequence of rows
    rmMask,     \* <<>>, or <<the masks of lines 85-93>> once they are built
    rmRecon,    \* <<>>, or <<img_reconstructed_real>> (line 96)
    inputIsDir, \* whether os.path.isdir(args.input_folder) holds
    exitStatus, \* <<>> while the process runs, <<status>> when it has ended
    dl,         \* ImageSpec: the call of download_image and its file
    stop_flag,  \* ScraperSpec: what self.stop_flag() returns
    checkpoint, \* ScraperSpec: the lines of the .checkpoint file
    chapters,   \* ScraperSpec: chapter -> its download_chapter task
    scraper,    \* ScraperSpec: the position and the locals of run()
    gui,        \* GuiSpec: the buttons and the status label of the window
    thread      \* GuiSpec: the DownloaderThread of the window, if any

batchVars == <<inp, out, outDirs, faults, maxWorkers, mainpc, walkPos, jobs,
               units, run, prev, out0>>
grayVars == <<gsImage, gsResult>>
normVars == <<nmOrig, nmProc, nmResult>>
pentVars == <<peImage, peResult, peTies>>
moireVars == <<rmRows, rmCols, rmPeaks, rmImage, rmMask, rmRecon>>
mainVars == <<inputIsDir, exitStatus>>
pureVars == <<grayVars, normVars, pentVars, moireVars>>
imageVars == <<dl>>
scraperVars == <<stop_flag, checkpoint, chapters, scraper>>
guiVars == <<gui, thread>>
netVars == <<imageVars, scraperVars, guiVars>>
otherVars == <<pureVars, mainVars, netVars>>
vars == <<batchVars, pureVars, mainVars, netVars>>

(* the values of the variables a specification does not use *)
GrayIdle == gsImage = [mode |-> "none", px |-> <<>>] /\ gsResult = <<>>
NormIdle == nmOrig = <<>> /\ nmProc = <<>> /\ nmResult = <<>>
PentIdle == peImage = <<>> /\ peResult = <<>> /\ peTies = "earlier"
MoireIdle ==
    /\ rmRows = 0
    /\ rmCols = 0
    /\ rmPeaks = "none"
    /\ rmImage = <<>>
    /\ rmMask = <<>>
    /\ rmRecon = <<>>
MainIdle == inputIsDir = TRUE /\ exitStatus = <<>>
ImageIdle == dl = <<>>
ScraperIdle ==
    /\ stop_flag = FALSE
    /\ checkpoint = <<>>
    /\ chapters = <<>>
    /\ scraper = <<>>
GuiIdle == gui = <<>> /\ thread = <<>>
NetIdle == ImageIdle /\ ScraperIdle /\ GuiIdle

----------------------------------------------------------------------------
(* Bounds *)
MaxWorkers == 2     \* pool sizes 1 and MaxWorkers (a worker for every file)
MaxTime == 2        \* modification times 1..MaxTime
MaxRuns == 2        \* invocations over the same trees
MaxPix == 2         \* GraySpec: pixels per image, 1..MaxPix
MaxNormLen == 2     \* NormSpec: pixels per array, 1..MaxNormLen
MaxPentLen == 3     \* PentSpec: pixels per image, 1..MaxPentLen
MaxRows == 24       \* MaskSpec: grid heights 1..MaxRows
MaxCols == 13       \* MaskSpec: grid widths 1..MaxCols
MaxDftVal == 1      \* DftSpec: pixel values 0..MaxDftVal, and 255

Now == MaxTime + 1  \* time stamp of a file written during a run

----------------------------------------------------------------------------
(* The images the files may hold.  px is the pixel sequence in scan order *)
(* (y outer, x inner); a pixel is the tuple of its band values.           *)
ImgL == [mode |-> "L", px |-> <<<<0>>, <<1>>>>]
ImgBilevel == [mode |-> "1", px |-> <<<<0>>, <<1>>>>]
ImgRGBGray == [mode |-> "RGB", px |-> <<<<0, 0, 0>>, <<1, 1, 1>>>>]
ImgRGBColor == [mode |-> "RGB", px |-> <<<<0, 0, 0>>, <<1, 0, 1>>>>]
NoImage == [mode |-> "none", px |-> <<>>]

(* What PIL makes of a file: verifies = Image.open + verify() succeed;     *)
(* decodes = the pixel data can be loaded (load(), convert()).  verify()   *)
(* does not decode, so a truncated file may verify and still not decode.   *)
FileKinds ==
    { [verifies |-> FALSE, decodes |-> FALSE, img |-> NoImage],
      [verifies |-> TRUE, decodes |-> TRUE, img |-> ImgL],
      [verifies |-> TRUE, decodes |-> TRUE, img |-> ImgBilevel],
      [verifies |-> TRUE, decodes |-> TRUE, img |-> ImgRGBGray],
      [verifies |-> TRUE, decodes |-> TRUE, img |-> ImgRGBColor],
      [verifies |-> TRUE, decodes |-> FALSE, img |-> ImgL],
      [verifies |-> TRUE, decodes |-> FALSE, img |-> ImgRGBColor] }

----------------------------------------------------------------------------
(* The input tree: root ".", "a" under it, "a/b" under "a".  Two regular  *)
(* files with the same name in different directories, one entry that is   *)
(* listed by os.walk but is no regular file, and one empty directory.     *)
WalkOrder == <<".", "a", "a/b">>
Dirs == {WalkOrder[i] : i \in 1..Len(WalkOrder)}
Parent(d) == IF d = "a/b" THEN "a" ELSE "."

RECURSIVE Ancestors(_)
Ancestors(d) == IF d = "." THEN {"."} ELSE {d} \cup Ancestors(Parent(d))

Entry(d, n, f) == [dir |-> d, name |-> n, isfile |-> f]
Listing(d) ==
    CASE d = "." -> <<Entry(".", "p1.jpg", TRUE)>>
      [] d = "a" -> <<Entry("a", "lnk", FALSE), Entry("a", "p1.jpg", TRUE)>>
      [] OTHER -> <<>>

Entries == UNION {{Listing(d)[i] : i \in 1..Len(Listing(d))} : d \in Dirs}
RegularFiles == {e \in Entries : e.isfile}
Names == {e.name : e \in Entries}
Paths == Dirs \X Names

(* File states of the output tree *)
Absent == [exists |-> FALSE, mtime |-> 0, content |-> <<"none", "", "">>]
FileState(m, c) == [exists |-> TRUE, mtime |-> m, content |-> c]
RawOf(e) == <<"raw", e.dir, e.name>>
MoireOf(e) == <<"moire", e.dir, e.name>>
PartialOf(e) == <<"partial", e.dir, e.name>>
Prior == <<"prior", "", "">>

----------------------------------------------------------------------------
(* is_grayscale: the scan of lines 140-145, pixel by pixel, first three   *)
(* bands of each pixel, returning False at the first unequal pixel.       *)
(* a scan that samples the first pixel only *)
ScanPixelsFirstOnly(px, i) ==
    px = <<>> \/ (px[1][1] = px[1][2] /\ px[1][2] = px[1][3])

RECURSIVE ScanPixels(_, _)
ScanPixels(px, i) ==
    IF i > Len(px) THEN TRUE
    ELSE LET r == px[i][1]
             g == px[i][2]
             b == px[i][3]
         IN  IF r # g \/ g # b THEN FALSE ELSE ScanPixels(px, i + 1)

(* every mode that is not scanned answered True *)
is_grayscale_other_true(image) ==
    IF image.mode \in {"RGB", "RGBA"} THEN ScanPixels(image.px, 1) ELSE TRUE

is_grayscale(image) ==
    IF image.mode \in {"RGB", "RGBA"} THEN ScanPixels(image.px, 1)
    ELSE IF image.mode = "L" THEN TRUE
    ELSE FALSE

(* image.load() (line 139) decodes the pixel data; mode 'L' and the other *)
(* modes are answered from the header alone.                              *)
LoadsPixels(image) == image.mode \in {"RGB", "RGBA"}

----------------------------------------------------------------------------
(* process_images_in_folder: the walk *)
(* every output joined to the output root, the directory dropped *)
OutputPathFlat(outdir, filename) == <<".", filename>>

OutputPath(outdir, filename) == <<outdir, filename>>

JobOf(e, d) == [inp |-> e, outp |-> OutputPath(d, e.name), outdir |-> d]

RECURSIVE JobsOfListing(_, _)
JobsOfListing(l, d) ==
    IF l = <<>> THEN <<>>
    ELSE (IF Head(l).isfile THEN <<JobOf(Head(l), d)>> ELSE <<>>)
         \o JobsOfListing(Tail(l), d)

(* os.makedirs(output_dir, exist_ok=True): the directory and its missing  *)
(* parents; a directory that is there already is left as it is.           *)
(* the relative path dropped: only the output root is ever created *)
MakeDirsRootOnly(ds, d) == ds \cup {"."}

MakeDirs(ds, d) == ds \cup Ancestors(d)

Walk ==
    /\ mainpc = "walk"
    /\ LET d == WalkOrder[walkPos]
           js == jobs \o JobsOfListing(Listing(d), d)
       IN  /\ outDirs' = MakeDirs(outDirs, d)
           /\ jobs' = js
           /\ walkPos' = walkPos + 1
           /\ mainpc' = IF walkPos < Len(WalkOrder) THEN "walk"
                        ELSE IF js = <<>> THEN "join" ELSE "submit"
    /\ UNCHANGED <<otherVars, inp, out, faults, maxWorkers, units, run, prev,
                   out0>>

(* executor.submit, one future per job, in list order *)
NewUnit == [pc |-> "queued", cls |-> "none", decision |-> "none",
            outcome |-> "none", moire |-> FALSE, exc |-> FALSE]

Submit ==
    /\ mainpc = "submit"
    /\ units' = Append(units, NewUnit)
    /\ mainpc' = IF Len(units) + 1 = Len(jobs) THEN "join" ELSE "submit"
    /\ UNCHANGED <<otherVars, inp, out, outDirs, faults, maxWorkers, walkPos,
                   jobs, run, prev, out0>>

(* the loop over as_completed (its body is empty, no result is read) and  *)
(* the executor's shutdown(wait=True) on leaving the with block           *)
(* waiting for the first completed future only *)
AnyDone == \E i \in 1..Len(units) : units[i].pc = "done"

AllDone == \A i \in 1..Len(units) : units[i].pc = "done"

Return ==
    /\ mainpc = "join"
    /\ AllDone
    /\ mainpc' = "returned"
    /\ UNCHANGED <<otherVars, inp, out, outDirs, faults, maxWorkers, walkPos,
                   jobs, units, run, prev, out0>>

(* the command line entry point run once more over the same trees *)
Rerun ==
    /\ mainpc = "returned"
    /\ run < MaxRuns
    /\ run' = run + 1
    /\ prev' = [i \in 1..Len(units) |-> units[i].outcome]
    /\ mainpc' = "walk"
    /\ walkPos' = 1
    /\ jobs' = <<>>
    /\ units' = <<>>
    /\ out0' = out
    /\ UNCHANGED <<otherVars, inp, out, outDirs, faults, maxWorkers>>

----------------------------------------------------------------------------
(* The worker pool: a queued future starts when a worker is free, in      *)
(* submission order.                                                      *)
Running == {i \in 1..Len(units) : units[i].pc \notin {"queued", "done"}}

Start(i) ==
    /\ units[i].pc = "queued"
    /\ \A j \in 1..(i - 1) : units[j].pc # "queued"
    /\ Cardinality(Running) < maxWorkers
    /\ units' = [units EXCEPT ![i].pc = "verify"]
    /\ UNCHANGED <<otherVars, inp, out, outDirs, faults, maxWorkers, mainpc,
                   walkPos, jobs, run, prev, out0>>

(* process_single_image *)
(* no handler around the unit: the exception ends up in the future *)
OuterExceptEscapes(u) ==
    [u EXCEPT !.pc = "done", !.outcome = "failed", !.exc = TRUE]

OuterExcept(u) == [u EXCEPT !.pc = "done", !.outcome = "failed"]

Verify(i) ==
    /\ units[i].pc = "verify"
    /\ units' = [units EXCEPT ![i] =
                    IF inp[jobs[i].inp].kind.verifies
                    THEN [@ EXCEPT !.pc = "classify"]
                    ELSE [@ EXCEPT !.pc = "copy", !.cls = "Unreadable"]]
    /\ UNCHANGED <<otherVars, inp, out, outDirs, faults, maxWorkers, mainpc,
                   walkPos, jobs, run, prev, out0>>

Classify(i) ==
    /\ units[i].pc = "classify"
    /\ LET k == inp[jobs[i].inp].kind
       IN  units' = [units EXCEPT ![i] =
                        IF LoadsPixels(k.img) /\ ~k.decodes THEN OuterExcept(@)
                        ELSE IF is_grayscale(k.img)
                        THEN [@ EXCEPT !.pc = "moire", !.cls = "Grayscale"]
                        ELSE [@ EXCEPT !.pc = "copy", !.cls = "NonGrayscale"]]
    /\ UNCHANGED <<otherVars, inp, out, outDirs, faults, maxWorkers, mainpc,
                   walkPos, jobs, run, prev, out0>>

(* process_and_save_moire_removed_image up to the write: open, convert,   *)
(* remove_moire_algorithm, normalize_image, all in the unit's own memory  *)
Moire(i) ==
    /\ units[i].pc = "moire"
    /\ units' = [units EXCEPT ![i] =
                    IF inp[jobs[i].inp].kind.decodes
                    THEN [@ EXCEPT !.pc = "write", !.moire = TRUE]
                    ELSE OuterExcept([@ EXCEPT !.moire = TRUE])]
    /\ UNCHANGED <<otherVars, inp, out, outDirs, faults, maxWorkers, mainpc,
                   walkPos, jobs, run, prev, out0>>

(* cv2.imwrite: writes the file; raises (no encoder, ...); or returns     *)
(* False without writing, which the caller does not look at.              *)
WriteOutcomes == IF faults THEN {"ok", "raise", "false"} ELSE {"ok"}

Write(i) ==
    /\ units[i].pc = "write"
    /\ \E r \in WriteOutcomes :
         /\ out' = IF r = "ok"
                   THEN [out EXCEPT ![jobs[i].outp] =
                            FileState(Now, MoireOf(jobs[i].inp))]
                   ELSE out
         /\ units' = [units EXCEPT ![i] =
                         IF r = "raise" THEN OuterExcept(@)
                         ELSE [@ EXCEPT !.pc = "done",
                                        !.outcome = IF r = "ok" THEN "written"
                                                    ELSE "unsaved"]]
    /\ UNCHANGED <<otherVars, inp, outDirs, faults, maxWorkers, mainpc,
                   walkPos, jobs, run, prev, out0>>

(* the guard of lines 157-158 and 167-168 *)
(* the comparison with >= in place of > *)
CopyNeededOrEqual(inMtime, o) == ~o.exists \/ inMtime >= o.mtime

CopyNeeded(inMtime, o) == ~o.exists \/ inMtime > o.mtime

(* shutil.copy2: copies the bytes, then the metadata (the mtime).  It may *)
(* raise before it has created anything, or after it has written a part.  *)
CopyOutcomes == IF faults THEN {"ok", "raise", "partial"} ELSE {"ok"}

Copy2(e, r) ==
    CASE r = "ok" -> FileState(inp[e].mtime, RawOf(e))
      [] r = "partial" -> FileState(Now, PartialOf(e))

Copy(i) ==
    /\ units[i].pc = "copy"
    /\ LET e == jobs[i].inp
           p == jobs[i].outp
       IN  IF CopyNeeded(inp[e].mtime, out[p])
           THEN \E r \in CopyOutcomes :
                  /\ out' = IF r = "raise" THEN out
                            ELSE [out EXCEPT ![p] = Copy2(e, r)]
                  /\ units' = [units EXCEPT ![i] =
                                  IF r = "ok"
                                  THEN [@ EXCEPT !.pc = "done",
                                                 !.decision = "copy",
                                                 !.outcome = "copied"]
                                  ELSE OuterExcept(
                                           [@ EXCEPT !.decision = "copy"])]
           ELSE /\ out' = out
                /\ units' = [units EXCEPT ![i] =
                                [@ EXCEPT !.pc = "done", !.decision = "skip",
                                          !.outcome = "skipped"]]
    /\ UNCHANGED <<otherVars, inp, outDirs, faults, maxWorkers, mainpc,
                   walkPos, jobs, run, prev, out0>>

UnitStep(i) ==
    /\ i \in 1..Len(units)
    /\ \/ Start(i)
       \/ Verify(i)
       \/ Classify(i)
       \/ Moire(i)
       \/ Write(i)
       \/ Copy(i)

----------------------------------------------------------------------------
InputTrees == [RegularFiles -> [kind : FileKinds, mtime : 1..MaxTime]]

(* The output tree before the first run: at each mirrored path nothing,   *)
(* or a file left there earlier.                                          *)
OutputTrees ==
    {o \in [Paths -> {Absent} \cup {FileState(m, Prior) : m \in 1..MaxTime}] :
        \A p \in Paths :
            o[p].exists => \E e \in RegularFiles : p = <<e.dir, e.name>>}

DirsOf(o) == UNION {Ancestors(p[1]) : p \in {q \in Paths : o[q].exists}}

InitWith(f) ==
    /\ inp \in InputTrees
    /\ out \in OutputTrees
    /\ outDirs = DirsOf(out)
    /\ faults = f
    /\ maxWorkers \in {1, MaxWorkers}
    /\ mainpc = "walk"
    /\ walkPos = 1
    /\ jobs = <<>>
    /\ units = <<>>
    /\ run = 1
    /\ prev = <<>>
    /\ out0 = out
    /\ GrayIdle
    /\ NormIdle
    /\ PentIdle
    /\ MoireIdle
    /\ MainIdle
    /\ NetIdle

Init == InitWith(TRUE)

InitQuiet == InitWith(FALSE)

(* one invocation of process_images_in_folder *)
RunOnce ==
    \/ Walk
    \/ Submit
    \/ \E i \in 1..Len(units) : Start(i)
    \/ \E i \in 1..Len(units) : Verify(i)
    \/ \E i \in 1..Len(units) : Classify(i)
    \/ \E i \in 1..Len(units) : Moire(i)
    \/ \E i \in 1..Len(units) : Write(i)
    \/ \E i \in 1..Len(units) : Copy(i)
    \/ Return

Next ==
    \/ RunOnce
    \/ Rerun

Spec == Init /\ [][Next]_vars

QuietSpec == InitQuiet /\ [][Next]_vars

(* FairSpec: one invocation, into an output directory that is empty or   *)
(* holds a recent file at every mirrored path.  The coordinator and every *)
(* started worker thread keep running.                                    *)
InitFair ==
    /\ InitWith(TRUE)
    /\ \/ \A p \in Paths : ~out[p].exists
       \/ \A e \in RegularFiles :
             out[<<e.dir, e.name>>] = FileState(MaxTime, Prior)

MaxJobs == Cardinality(RegularFiles)

Fairness ==
    /\ WF_vars(Walk)
    /\ WF_vars(Submit)
    /\ WF_vars(Return)
    /\ \A i \in 1..MaxJobs : WF_vars(UnitStep(i))

FairSpec == InitFair /\ [][RunOnce]_vars /\ Fairness

----------------------------------------------------------------------------
(* MainSpec: the command line entry point (lines 197-209), started on an  *)
(* input folder that is a directory or is not.  exit() without an         *)
(* argument raises SystemExit(None), which ends the process with status   *)
(* 0, the status of a script that runs to its last line.                  *)
ExitStatusOfExit == 0
ExitStatusAtEnd == 0
DefaultMaxWorkers == 8

MainCheck ==
    /\ mainpc = "main"
    /\ IF ~inputIsDir
       THEN /\ mainpc' = "exited"
            /\ exitStatus' = <<ExitStatusOfExit>>
       ELSE /\ mainpc' = "walk"
            /\ exitStatus' = exitStatus
    /\ UNCHANGED <<pureVars, netVars, inputIsDir, inp, out, outDirs, faults,
                   maxWorkers, walkPos, jobs, units, run, prev, out0>>

MainEnd ==
    /\ mainpc = "returned"
    /\ mainpc' = "exited"
    /\ exitStatus' = <<ExitStatusAtEnd>>
    /\ UNCHANGED <<pureVars, netVars, inputIsDir, inp, out, outDirs, faults,
                   maxWorkers, walkPos, jobs, units, run, prev, out0>>

MainInit ==
    /\ inputIsDir \in BOOLEAN
    /\ exitStatus = <<>>
    /\ inp \in (IF inputIsDir THEN InputTrees ELSE {<<>>})
    /\ out \in OutputTrees
    /\ outDirs = DirsOf(out)
    /\ faults = FALSE
    /\ maxWorkers = DefaultMaxWorkers
    /\ mainpc = "main"
    /\ walkPos = 1
    /\ jobs = <<>>
    /\ units = <<>>
    /\ run = 1
    /\ prev = <<>>
    /\ out0 = out
    /\ GrayIdle
    /\ NormIdle
    /\ PentIdle
    /\ MoireIdle
    /\ NetIdle

MainNext ==
    \/ MainCheck
    \/ RunOnce
    \/ MainEnd

MainSpec == MainInit /\ [][MainNext]_vars

----------------------------------------------------------------------------
(* GraySpec: is_grayscale on every image of up to MaxPix pixels.          *)
ChanVals == {0, 1}
GrayModes == {"L", "1", "I;16", "P", "LA", "RGB", "RGBA", "CMYK"}

(* the number of bands PIL gives a mode *)
Bands(mode) ==
    CASE mode \in {"L", "1", "I;16", "P"} -> 1
      [] mode = "LA" -> 2
      [] mode = "RGB" -> 3
      [] mode \in {"RGBA", "CMYK"} -> 4

ImagesOf(mode) ==
    {[mode |-> mode, px |-> s] :
        s \in UNION {[1..n -> [1..Bands(mode) -> ChanVals]] : n \in 1..MaxPix}}

GrayInputs == UNION {ImagesOf(m) : m \in GrayModes}

IdleBatch ==
    /\ inp = <<>>
    /\ out = <<>>
    /\ outDirs = {}
    /\ faults = FALSE
    /\ maxWorkers = 1
    /\ mainpc = "off"
    /\ walkPos = 1
    /\ jobs = <<>>
    /\ units = <<>>
    /\ run = 1
    /\ prev = <<>>
    /\ out0 = <<>>

GrayInit ==
    /\ IdleBatch
    /\ gsImage \in GrayInputs
    /\ gsResult = <<>>
    /\ NormIdle
    /\ PentIdle
    /\ MoireIdle
    /\ MainIdle
    /\ NetIdle

CallIsGrayscale ==
    /\ gsResult = <<>>
    /\ gsResult' = <<is_grayscale(gsImage)>>
    /\ UNCHANGED <<batchVars, mainVars, netVars, gsImage, normVars, pentVars,
                   moireVars>>

GrayNext == CallIsGrayscale

GraySpec == GrayInit /\ [][GrayNext]_vars

----------------------------------------------------------------------------
(* UnitSpec: process_single_image on one file, a/p1.jpg, already          *)
(* submitted, for every image is_grayscale is checked on and every state  *)
(* of the output path.  The transform of a Grayscale file is taken stage  *)
(* by stage (in Spec it is the single step Moire: the stages work on the  *)
(* unit's own arrays and touch nothing another unit can see).             *)
UnitFile == Entry("a", "p1.jpg", TRUE)

UnitKinds ==
    FileKinds
      \cup {[verifies |-> TRUE, decodes |-> TRUE, img |-> g] : g \in GrayInputs}

(* process_and_save_moire_removed_image, lines 118-122: open and convert *)
OpenConvert(i) ==
    /\ units[i].pc = "moire"
    /\ units' = [units EXCEPT ![i] =
                    IF inp[jobs[i].inp].kind.decodes
                    THEN [@ EXCEPT !.pc = "forward", !.moire = TRUE]
                    ELSE OuterExcept([@ EXCEPT !.moire = TRUE])]
    /\ UNCHANGED <<otherVars, inp, out, outDirs, faults, maxWorkers, mainpc,
                   walkPos, jobs, run, prev, out0>>

(* the statements of remove_moire_algorithm and of lines 125-127 in their *)
(* order: forward transform (66-69), peak detection and masking (70-94),  *)
(* inverse transform (95-98), normalize_image (126), imwrite (127)        *)
(* the tone recalibration applied to the spectrum, before the inverse *)
StageAfterSwapped(pc) ==
    CASE pc = "forward" -> "masking"
      [] pc = "masking" -> "recalibrate"
      [] pc = "recalibrate" -> "inverse"
      [] pc = "inverse" -> "write"

StageAfter(pc) ==
    CASE pc = "forward" -> "masking"
      [] pc = "masking" -> "inverse"
      [] pc = "inverse" -> "recalibrate"
      [] pc = "recalibrate" -> "write"

MoireStage(i) ==
    /\ units[i].pc \in {"forward", "masking", "inverse", "recalibrate"}
    /\ units' = [units EXCEPT ![i].pc = StageAfter(@)]
    /\ UNCHANGED <<otherVars, inp, out, outDirs, faults, maxWorkers, mainpc,
                   walkPos, jobs, run, prev, out0>>

UnitInit ==
    /\ out \in {[p \in Paths |-> IF p = <<"a", "p1.jpg">> THEN st ELSE Absent] :
                  st \in {Absent} \cup {FileState(m, Prior) : m \in 1..MaxTime}}
    /\ inp \in [{UnitFile} -> [kind : UnitKinds, mtime : 1..MaxTime]]
    /\ outDirs = Dirs
    /\ faults = FALSE
    /\ maxWorkers = 1
    /\ mainpc = "join"
    /\ walkPos = Len(WalkOrder) + 1
    /\ jobs = <<JobOf(UnitFile, "a")>>
    /\ units = <<NewUnit>>
    /\ run = 1
    /\ prev = <<>>
    /\ out0 = out
    /\ GrayIdle
    /\ NormIdle
    /\ PentIdle
    /\ MoireIdle
    /\ MainIdle
    /\ NetIdle

UnitNext ==
    \/ \E i \in 1..Len(units) : Start(i)
    \/ \E i \in 1..Len(units) : Verify(i)
    \/ \E i \in 1..Len(units) : Classify(i)
    \/ \E i \in 1..Len(units) : OpenConvert(i)
    \/ \E i \in 1..Len(units) : MoireStage(i)
    \/ \E i \in 1..Len(units) : Write(i)
    \/ \E i \in 1..Len(units) : Copy(i)
    \/ Return

UnitSpec == UnitInit /\ [][UnitNext]_vars

----------------------------------------------------------------------------
(* NormSpec: normalize_image on every pair of arrays of up to MaxNormLen  *)
(* pixels.  Arrays are flattened: every operation of the function is      *)
(* element-wise or a mean over a mask.  Means and the rescaling are       *)
(* computed exactly, as fractions <<numerator, denominator>>.             *)
White == 255
Black == 0
NormVals == {0, 1, 128, 254, 255}

RECURSIVE SumAt(_, _)
SumAt(a, I) ==
    IF I = {} THEN 0
    ELSE LET i == CHOOSE j \in I : TRUE IN a[i] + SumAt(a, I \ {i})

(* vals.mean() if vals.size else dflt *)
MeanOr(a, I, dflt) ==
    IF I # {} THEN <<SumAt(a, I), Cardinality(I)>> ELSE <<dflt, 1>>

(* np.clip(x, 0, 1) then (x * 255).astype(np.uint8), for x = num / den *)
(* the scaling without np.clip *)
ScaleUnclipped(num, den) ==
    LET n == IF den < 0 THEN 0 - num ELSE num
        d == IF den < 0 THEN 0 - den ELSE den
    IN  (255 * n) \div d

ClipScale(num, den) ==
    LET n == IF den < 0 THEN 0 - num ELSE num
        d == IF den < 0 THEN 0 - den ELSE den
    IN  IF n <= 0 THEN 0
        ELSE IF n >= d THEN 255
        ELSE (255 * n) \div d

WhiteMask(orig) == {i \in 1..Len(orig) : orig[i] >= White}
BlackMask(orig) == {i \in 1..Len(orig) : orig[i] <= Black}

(* lines 104-112: the linear rescaling, before the reference points are   *)
(* written back                                                           *)
Rescaled(orig, proc) ==
    LET aw == MeanOr(proc, WhiteMask(orig), 255)
        ab == MeanOr(proc, BlackMask(orig), 0)
        same == aw[1] * ab[2] = ab[1] * aw[2]
        denom == IF same THEN <<1, 1>>
                 ELSE <<aw[1] * ab[2] - ab[1] * aw[2], aw[2] * ab[2]>>
    IN  [i \in 1..Len(proc) |->
            ClipScale((proc[i] * ab[2] - ab[1]) * denom[2], ab[2] * denom[1])]

(* the function without lines 113-114 *)
normalize_image_drift(orig, proc) == Rescaled(orig, proc)

normalize_image(orig, proc) ==
    LET norm == Rescaled(orig, proc)
    IN  [i \in 1..Len(proc) |->
            IF i \in BlackMask(orig) \cup WhiteMask(orig) THEN orig[i]
            ELSE norm[i]]

NormArrays == UNION {[1..n -> NormVals] : n \in 1..MaxNormLen}

NormInit ==
    /\ IdleBatch
    /\ GrayIdle
    /\ PentIdle
    /\ MoireIdle
    /\ MainIdle
    /\ NetIdle
    /\ nmOrig \in NormArrays
    /\ nmProc \in {a \in NormArrays : Len(a) = Len(nmOrig)}
    /\ nmResult = <<>>

CallNormalizeImage ==
    /\ nmResult = <<>>
    /\ nmResult' = normalize_image(nmOrig, nmProc)
    /\ UNCHANGED <<batchVars, mainVars, netVars, grayVars, nmOrig, nmProc, pentVars,
                   moireVars>>

NormNext == CallNormalizeImage

NormSpec == NormInit /\ [][NormNext]_vars

----------------------------------------------------------------------------
(* PentSpec: pentropy_binarization.  The image is flattened (the function *)
(* uses its histogram and thresholds it element by element).  Natural     *)
(* logarithms are taken from a table, in millionths; the total entropy of *)
(* a split is kept as a fraction <<numerator, denominator>>.  In an image *)
(* of one or two intensities every split that is not skipped is computed  *)
(* from the same operands, so that the comparisons of line 54 do not      *)
(* depend on the rounding of the floating point terms.  In an image of    *)
(* more intensities two splits with different operands can have the same  *)
(* total entropy in exact arithmetic; which of the two floats is greater  *)
(* is left open (peTies).                                                 *)
Fallback == 127
LnMicro(k) ==
    CASE k = 1 -> 0
      [] k = 2 -> 693147
      [] k = 3 -> 1098612
      [] k = 4 -> 1386294
      [] k = 5 -> 1609438
      [] k = 6 -> 1791759
      [] k = 7 -> 1945910
      [] k = 8 -> 2079442

(* hist_counts[v] (line 33) *)
HistCount(img, v) == Cardinality({k \in 1..Len(img) : img[k] = v})

(* the sum of hist_counts over the bins of B *)
Mass(img, B) == Cardinality({k \in 1..Len(img) : img[k] \in B})

(* sum over the occupied bins of B of count * ln(count); with n the pixel *)
(* count, the sum of p_i_ln_p_i over B (lines 37-40, 48-49) is this sum   *)
(* over n, less ln(n) times the mass of B over n                          *)
RECURSIVE CountLnCount(_, _)
CountLnCount(img, B) ==
    LET occ == {v \in {img[k] : k \in 1..Len(img)} : v \in B}
    IN  IF occ = {} THEN 0
        ELSE LET v == CHOOSE w \in occ : TRUE
             IN  HistCount(img, v) * LnMicro(HistCount(img, v))
                   + CountLnCount(img, occ \ {v})

(* lines 44-47: a split is skipped when either side has no mass.  (Where  *)
(* the rounded sum of the whole mass falls just short of 1.0 the code     *)
(* evaluates the split; its total entropy is then about ln(1e-7), below   *)
(* that of every split with two classes, and it is never taken.)          *)
Skipped(img, s) ==
    \/ Mass(img, 0..s) = 0
    \/ Mass(img, 0..s) = Len(img)

(* lines 48-53: TE_s = ln(P_s * P_s') - H_s / P_s - H_s' / P_s', where    *)
(* H_s / P_s = CountLnCount(0..s) / b - ln(n) for b the count of pixels   *)
(* <= s, and likewise for the foreground with f = n - b                   *)
TotalEntropy(img, s) ==
    LET b == Mass(img, 0..s)
        f == Len(img) - b
        hb == CountLnCount(img, 0..s)
        hf == CountLnCount(img, (s + 1)..255)
    IN  <<(LnMicro(b) + LnMicro(f)) * b * f - hb * f - hf * b, b * f>>

(* line 54, on fractions with positive denominators *)
(* the comparison with >= in place of > : the last of equal splits wins *)
GreaterOrEqualTE(te, max) == te[1] * max[2] >= max[1] * te[2]

GreaterTE(te, max) == te[1] * max[2] > max[1] * te[2]

(* line 54 where the total entropy of split s equals max_TE in exact      *)
(* arithmetic and the two were computed from different class masses: the  *)
(* float of the later split is the greater one when ties is "later"       *)
RoundsAbove(img, s, st, ties) ==
    /\ ties = "later"
    /\ TotalEntropy(img, s)[1] * st.max_TE[2]
          = st.max_TE[1] * TotalEntropy(img, s)[2]
    /\ Mass(img, 0..s) # Mass(img, 0..st.threshold)

(* line 43: range(255) *)
(* the range one split short *)
CandidatesTo253 == 0..253

Candidates == 0..254

(* lines 41-56: the loop body for the splits s..last.  st holds max_TE    *)
(* and optimal_threshold; found is FALSE while max_TE is -inf.            *)
RECURSIVE SearchSplit(_, _, _, _, _)
SearchSplit(img, s, last, st, ties) ==
    IF s > last \/ s \notin Candidates THEN st
    ELSE IF Skipped(img, s) THEN SearchSplit(img, s + 1, last, st, ties)
    ELSE LET TE_s == TotalEntropy(img, s)
         IN  IF \/ ~st.found
                \/ GreaterTE(TE_s, st.max_TE)
                \/ RoundsAbove(img, s, st, ties)
             THEN SearchSplit(img, s + 1, last,
                      [found |-> TRUE, max_TE |-> TE_s, threshold |-> s], ties)
             ELSE SearchSplit(img, s + 1, last, st, ties)

(* the whole loop, the candidates taken in order, sixteen at a time; a   *)
(* block without a split to take leaves max_TE and optimal_threshold as   *)
(* they were                                                              *)
RECURSIVE SearchAll(_, _, _, _)
SearchAll(img, s, st, ties) ==
    IF s \notin Candidates THEN st
    ELSE LET next == SearchSplit(img, s, s + 15, st, ties)
         IN  IF next.found THEN SearchAll(img, s + 16, next, ties)
             ELSE SearchAll(img, s + 16, st, ties)

(* lines 57-59 *)
(* the search result taken as it is, no fallback *)
ThresholdNoFallback(r) == r.threshold

ThresholdOrFallback(r) == IF ~r.found THEN Fallback ELSE r.threshold

(* line 60: cv2.threshold(..., THRESH_BINARY) *)
(* a pixel equal to the threshold counted as a peak *)
ThresholdBinaryInclusive(img, t) ==
    [k \in 1..Len(img) |-> IF img[k] >= t THEN 255 ELSE 0]

ThresholdBinary(img, t) ==
    [k \in 1..Len(img) |-> IF img[k] > t THEN 255 ELSE 0]

pentropy_binarization(img, ties) ==
    LET start == [found |-> FALSE, max_TE |-> <<0, 1>>, threshold |-> 0]
        t == ThresholdOrFallback(SearchAll(img, 0, start, ties))
    IN  [threshold |-> t, binary |-> ThresholdBinary(img, t)]

PentLevels == {0, 20, 21, 127, 200, 253, 254, 255}

FlatImages == UNION {[1..n -> {v}] : n \in 1..MaxPentLen, v \in 0..255}

TwoValuedImages ==
    UNION {{a \in [1..n -> PentLevels] :
               Cardinality({a[k] : k \in 1..n}) = 2} : n \in 2..MaxPentLen}

ManyLevels == {0, 20, 127, 254, 255}

ManyValuedImages ==
    UNION {{a \in [1..n -> ManyLevels] :
               Cardinality({a[k] : k \in 1..n}) >= 3} : n \in 3..MaxPentLen}

PentInit ==
    /\ IdleBatch
    /\ GrayIdle
    /\ NormIdle
    /\ MoireIdle
    /\ MainIdle
    /\ NetIdle
    /\ peImage \in FlatImages \cup TwoValuedImages \cup ManyValuedImages
    /\ peTies \in IF peImage \in ManyValuedImages THEN {"earlier", "later"}
                  ELSE {"earlier"}
    /\ peResult = <<>>

CallPentropyBinarization ==
    /\ peResult = <<>>
    /\ peResult' = <<pentropy_binarization(peImage, peTies)>>
    /\ UNCHANGED <<batchVars, mainVars, netVars, grayVars, normVars, peImage, peTies,
                   moireVars>>

PentNext == CallPentropyBinarization

PentSpec == PentInit /\ [][PentNext]_vars

----------------------------------------------------------------------------
(* MaskSpec: lines 85-93 of remove_moire_algorithm and                    *)
(* pshape_design_rectangle_2d.  A grid is a function of the row index     *)
(* 0..rows-1 giving a function of the column index 0..cols-1, as          *)
(* array[row][col].  The Peak Mask freq_pan is the output of              *)
(* cv2.threshold, every element 0 or 255; what it holds depends on the    *)
(* image, and the model takes it from a family of patterns.               *)
BandHeight == 23
BandWidth == 12

Min2(a, b) == IF a < b THEN a ELSE b
Max2(a, b) == IF a > b THEN a ELSE b

pshape_design_rectangle_2d(img_width, img_height, rect_diameter_h, rect_length_w) ==
    LET rect_h == rect_diameter_h
        rect_w == rect_length_w
        center_x_img == img_width \div 2
        center_y_img == img_height \div 2
        start_x == center_x_img - rect_w \div 2
        start_y == center_y_img - rect_h \div 2
        end_x == start_x + rect_w
        end_y == start_y + rect_h
        draw_start_x == Max2(0, start_x)
        draw_end_x == Min2(img_width, end_x)
        draw_start_y == Max2(0, start_y)
        draw_end_y == Min2(img_height, end_y)
        drawn(y, x) ==
            /\ draw_start_x < draw_end_x /\ draw_start_y < draw_end_y
            /\ draw_start_y <= y /\ y < draw_end_y
            /\ draw_start_x <= x /\ x < draw_end_x
        value(y, x) == IF drawn(y, x) THEN 255 ELSE 0
    IN  [row \in 0..(img_height - 1) |->
         [col \in 0..(img_width - 1) |-> value(row, col)]]

(* cv2.bitwise_and, bitwise_or, bitwise_not on uint8 elements *)
RECURSIVE bitwise_and(_, _)
bitwise_and(x, y) ==
    IF x = 0 \/ y = 0 THEN 0
    ELSE (x % 2) * (y % 2) + 2 * bitwise_and(x \div 2, y \div 2)

bitwise_or(x, y) == x + y - bitwise_and(x, y)

bitwise_not(x) == 255 - x

(* the Peak Mask patterns: no peak, a peak everywhere, a peak on every   *)
(* other position starting at [0][0] or at [0][1]                         *)
PeakPatterns == {"none", "all", "even", "odd"}

PeakAt(pattern, r, c) ==
    CASE pattern = "none" -> FALSE
      [] pattern = "all" -> TRUE
      [] pattern = "even" -> (r + c) % 2 = 0
      [] pattern = "odd" -> (r + c) % 2 = 1

PeakMask(rows, cols, pattern) ==
    LET value(r, c) == IF PeakAt(pattern, r, c) THEN 255 ELSE 0
    IN  [row \in 0..(rows - 1) |->
         [col \in 0..(cols - 1) |-> value(row, col)]]

(* lines 86-88 *)
HorizBar(rows, cols) == pshape_design_rectangle_2d(cols, rows, BandHeight, cols)
VerticBar(rows, cols) == pshape_design_rectangle_2d(cols, rows, rows, BandWidth)

AxisCrossMask(rows, cols) ==
    LET value(r, c) == bitwise_or(HorizBar(rows, cols)[r][c],
                                  VerticBar(rows, cols)[r][c])
    IN  [row \in 0..(rows - 1) |->
         [col \in 0..(cols - 1) |-> value(row, col)]]

(* lines 89-90: peaks_to_remove, element by element *)
(* the peaks taken as they are, the axis cross not excluded *)
PeaksToRemoveAll(peak, axis) == peak

PeaksToRemove(peak, axis) == bitwise_and(peak, bitwise_not(axis))

(* line 91 *)
(* the peaks themselves used as the multiplier mask, not inverted *)
MaskShiftedNotInverted(peaks_to_remove) == peaks_to_remove

MaskShifted(peaks_to_remove) == bitwise_not(peaks_to_remove)

(* np.fft.fftshift and np.fft.ifftshift over both axes: a roll by n // 2  *)
(* and by -(n // 2) along each axis                                       *)
fftshift(rows, cols, g) ==
    LET value(r, c) == g[(r - rows \div 2) % rows][(c - cols \div 2) % cols]
    IN  [row \in 0..(rows - 1) |->
         [col \in 0..(cols - 1) |-> value(row, col)]]

(* the mask rolled the way fftshift rolls, by n // 2 *)
ifftshift_forward(rows, cols, g) ==
    LET value(r, c) == g[(r - rows \div 2) % rows][(c - cols \div 2) % cols]
    IN  [row \in 0..(rows - 1) |->
         [col \in 0..(cols - 1) |-> value(row, col)]]

ifftshift(rows, cols, g) ==
    LET value(r, c) == g[(r + rows \div 2) % rows][(c + cols \div 2) % cols]
    IN  [row \in 0..(rows - 1) |->
         [col \in 0..(cols - 1) |-> value(row, col)]]

(* line 93: the division by 255.0; the mask's elements are 0 and 255 and  *)
(* the quotients 0.0 and 1.0 are exact                                    *)
(* the division missing: the uint8 mask used as the multiplier *)
MaskAsIs(m) == m

MaskToFloat(m) == m \div 255

(* lines 85-93 *)
BuildMasks(rows, cols, pattern) ==
    LET freq_pan == PeakMask(rows, cols, pattern)
        axis == AxisCrossMask(rows, cols)
        shifted(r, c) == MaskShifted(PeaksToRemove(freq_pan[r][c], axis[r][c]))
        mask_shifted == [row \in 0..(rows - 1) |->
                         [col \in 0..(cols - 1) |-> shifted(row, col)]]
        unshifted == ifftshift(rows, cols, mask_shifted)
        as_float(r, c) == MaskToFloat(unshifted[r][c])
    IN  [axis |-> axis,
         shifted |-> mask_shifted,
         unshifted |-> [row \in 0..(rows - 1) |->
                        [col \in 0..(cols - 1) |-> as_float(row, col)]]]

BuildMask ==
    /\ rmRows > 0
    /\ rmMask = <<>>
    /\ rmMask' = <<BuildMasks(rmRows, rmCols, rmPeaks)>>
    /\ UNCHANGED <<batchVars, mainVars, netVars, grayVars, normVars, pentVars, rmRows,
                   rmCols, rmPeaks, rmImage, rmRecon>>

MaskInit ==
    /\ IdleBatch
    /\ GrayIdle
    /\ NormIdle
    /\ PentIdle
    /\ MainIdle
    /\ NetIdle
    /\ rmRows \in 1..MaxRows
    /\ rmCols \in 1..MaxCols
    /\ rmPeaks \in PeakPatterns
    /\ rmImage = <<>>
    /\ rmMask = <<>>
    /\ rmRecon = <<>>

MaskNext == BuildMask

MaskSpec == MaskInit /\ [][MaskNext]_vars

----------------------------------------------------------------------------
(* DftSpec: lines 66-68 and 85-96 of remove_moire_algorithm, the          *)
(* transform, the masking and the inverse transform, on grids of 1, 2 or  *)
(* 4 rows and columns.  There the roots of unity are 1, -i, -1 and i, a   *)
(* complex number is a pair <<re, im>> of integers and the transforms are *)
(* computed exactly; the inverse transform's division by rows * cols is   *)
(* kept as the denominator of the result.                                 *)
CAdd(a, b) == <<a[1] + b[1], a[2] + b[2]>>
CMul(a, b) == <<a[1] * b[1] - a[2] * b[2], a[1] * b[2] + a[2] * b[1]>>
CScale(k, a) == <<k * a[1], k * a[2]>>
Conj(a) == <<a[1], 0 - a[2]>>

(* exp(-2 pi i k / n) for n in {1, 2, 4} *)
RootOfUnity(n, k) ==
    LET q == (k * (4 \div n)) % 4
    IN  CASE q = 0 -> <<1, 0>>
          [] q = 1 -> <<0, -1>>
          [] q = 2 -> <<-1, 0>>
          [] q = 3 -> <<0, 1>>

(* the sum of term[0] .. term[k] *)
RECURSIVE SumTerms(_, _)
SumTerms(term, k) ==
    IF k < 0 THEN <<0, 0>> ELSE CAdd(term[k], SumTerms(term, k - 1))

(* np.fft.fft2 of a real grid (line 68) *)
fft2(rows, cols, x) ==
    LET coefficient(u, v) ==
            SumTerms([i \in 0..(rows * cols - 1) |->
                        CScale(x[i \div cols][i % cols],
                               CMul(RootOfUnity(rows, u * (i \div cols)),
                                    RootOfUnity(cols, v * (i % cols))))],
                     rows * cols - 1)
    IN  [row \in 0..(rows - 1) |->
         [col \in 0..(cols - 1) |-> coefficient(row, col)]]

(* np.fft.ifft2 (line 95), times rows * cols *)
ifft2_numerator(rows, cols, F) ==
    LET sample(r, c) ==
            SumTerms([i \in 0..(rows * cols - 1) |->
                        CMul(F[i \div cols][i % cols],
                             CMul(Conj(RootOfUnity(rows, r * (i \div cols))),
                                  Conj(RootOfUnity(cols, c * (i % cols)))))],
                     rows * cols - 1)
    IN  [row \in 0..(rows - 1) |->
         [col \in 0..(cols - 1) |-> sample(row, col)]]

(* lines 68, 94-96: img_reconstructed_real, as numerators over den *)
ReconstructReal(rows, cols, image, mask_unshifted_float) ==
    LET f_transform == fft2(rows, cols, image)
        masked(u, v) == CScale(mask_unshifted_float[u][v], f_transform[u][v])
        f_transform_masked == [row \in 0..(rows - 1) |->
                               [col \in 0..(cols - 1) |-> masked(row, col)]]
        complex == ifft2_numerator(rows, cols, f_transform_masked)
        real(r, c) == complex[r][c][1]
    IN  [num |-> [row \in 0..(rows - 1) |->
                  [col \in 0..(cols - 1) |->
                      real(row, col)]], den |-> rows * cols]

Reconstruct ==
    /\ rmMask # <<>>
    /\ rmImage # <<>>
    /\ rmRecon = <<>>
    /\ rmRecon' = <<ReconstructReal(rmRows, rmCols, rmImage,
                                    rmMask[1].unshifted)>>
    /\ UNCHANGED <<batchVars, mainVars, netVars, grayVars, normVars, pentVars, rmRows,
                   rmCols, rmPeaks, rmImage, rmMask>>

DftShapes == {<<1, 1>>, <<1, 2>>, <<2, 1>>, <<2, 2>>, <<1, 4>>, <<4, 1>>}
DftVals == (0..MaxDftVal) \cup {255}

DftInit ==
    /\ IdleBatch
    /\ GrayIdle
    /\ NormIdle
    /\ PentIdle
    /\ MainIdle
    /\ NetIdle
    /\ \E shape \in DftShapes : rmRows = shape[1] /\ rmCols = shape[2]
    /\ rmPeaks \in {"none", "all"}
    /\ rmImage \in [0..(rmRows - 1) -> [0..(rmCols - 1) -> DftVals]]
    /\ rmMask = <<>>
    /\ rmRecon = <<>>

DftNext ==
    \/ BuildMask
    \/ Reconstruct

DftSpec == DftInit /\ [][DftNext]_vars

----------------------------------------------------------------------------
(* ImageSpec: one call of WeebCentralScraper.download_image.  The file at *)
(* filepath is absent, empty or holds data; the server answers each       *)
(* request in one of the ways of Responses, and writing the file goes one *)
(* of the ways of WriteResults.  relative tells whether img_url has no    *)
(* scheme and is joined to the chapter's URL first (lines 153-154).       *)
MaxRetries == 3

(* what session.get and the checks after it come to: the three first are  *)
(* requests.exceptions.RequestException (raise_for_status raises          *)
(* HTTPError), a content type that is no image raises ValueError          *)
RequestExceptions == {"timeout", "connection", "http_error"}
Responses == RequestExceptions \cup {"nonimage", "image", "image_empty"}

(* open(filepath, 'wb') and f.write: open may fail and leave the file as  *)
(* it was; write may fail after open has truncated the file               *)
WriteResults == {"ok", "open_fails", "write_fails"}

(* line 184 *)
RetryDelay(attempt) == (attempt + 1) * 2

(* lines 148-150 *)
DownloadEntry ==
    /\ dl.pc = "entry"
    /\ dl' = IF dl.file = "data"
             THEN [dl EXCEPT !.pc = "returned", !.result = <<TRUE>>]
             ELSE [dl EXCEPT !.pc = "request"]
    /\ UNCHANGED <<batchVars, pureVars, mainVars, scraperVars, guiVars>>

(* lines 164-175: the request, raise_for_status and the content type      *)
(* check.  A RequestException goes to the handler of line 182, a          *)
(* ValueError to the handler of line 190.                                 *)
DownloadRequest ==
    /\ dl.pc = "request"
    /\ \E r \in Responses :
          dl' = [dl EXCEPT
                    !.requests = @ + 1,
                    !.response = r,
                    !.pc = IF r \in RequestExceptions THEN "caught"
                           ELSE IF r = "nonimage" THEN "returned"
                           ELSE "write",
                    !.result = IF r = "nonimage" THEN <<FALSE>> ELSE @]
    /\ UNCHANGED <<batchVars, pureVars, mainVars, scraperVars, guiVars>>

(* lines 182-188: sleep and try again, or raise to the handler of 190 *)
DownloadCaught ==
    /\ dl.pc = "caught"
    /\ dl' = IF dl.attempt < MaxRetries - 1
             THEN [dl EXCEPT !.failures = @ + 1,
                             !.slept = Append(@, RetryDelay(dl.attempt)),
                             !.attempt = @ + 1,
                             !.pc = "request"]
             ELSE [dl EXCEPT !.failures = @ + 1,
                             !.pc = "returned",
                             !.result = <<FALSE>>]
    /\ UNCHANGED <<batchVars, pureVars, mainVars, scraperVars, guiVars>>

(* lines 177-180, and the handler of line 190 for an OSError *)
DownloadWrite ==
    /\ dl.pc = "write"
    /\ \E w \in WriteResults :
          dl' = [dl EXCEPT
                    !.file = CASE w = "open_fails" -> @
                               [] w = "write_fails" -> "empty"
                               [] w = "ok" -> IF dl.response = "image_empty"
                                              THEN "empty" ELSE "data",
                    !.written = (w = "ok"),
                    !.pc = "returned",
                    !.result = <<w = "ok">>]
    /\ UNCHANGED <<batchVars, pureVars, mainVars, scraperVars, guiVars>>

ImageInit ==
    /\ IdleBatch
    /\ GrayIdle
    /\ NormIdle
    /\ PentIdle
    /\ MoireIdle
    /\ MainIdle
    /\ ScraperIdle
    /\ GuiIdle
    /\ \E f \in {"absent", "empty", "data"}, rel \in BOOLEAN :
          dl = [pc |-> "entry", file0 |-> f, file |-> f, relative |-> rel,
                attempt |-> 0, requests |-> 0, failures |-> 0, slept |-> <<>>,
                response |-> "none", written |-> FALSE, result |-> <<>>]

ImageNext ==
    \/ DownloadEntry
    \/ DownloadRequest
    \/ DownloadCaught
    \/ DownloadWrite

ImageSpec == ImageInit /\ [][ImageNext]_vars

----------------------------------------------------------------------------
(* ScraperSpec: WeebCentralScraper.run from the point where the chapters  *)
(* to download are selected, with the download_chapter tasks of its pool  *)
(* and a stop flag that the caller may raise at any time (the flag of the *)
(* download thread, which stays raised).  A chapter is named by its       *)
(* number; the .checkpoint file is the sequence of its lines.             *)
MaxChapters == 2        \* chapters selected, 1..MaxChapters
MaxImages == 1          \* image URLs of a chapter, 0..MaxImages
ChapterWorkers == 3     \* max_workers of the pool of run()

Selected == DOMAIN chapters

NewChapterTask ==
    [pc |-> "queued", dir |-> FALSE, urls |-> 0, collected |-> 0,
     downloaded |-> 0, stopped |-> FALSE, outcome |-> "none", value |-> 0]

(* lines 340-343: the chapters handed to executor.submit, given the       *)
(* chapters selected and the names read from .checkpoint                  *)
(* the chapters named in .checkpoint left out *)
SubmittedNew(selected, downloaded_chapters) == selected \ downloaded_chapters

Submitted(selected, downloaded_chapters) == selected

(* lines 328-343 *)
RunSubmit ==
    /\ scraper.pc = "submit"
    /\ LET downloaded_chapters == {checkpoint[k] : k \in 1..Len(checkpoint)}
       IN  chapters' = [c \in Submitted(scraper.selected, downloaded_chapters)
                          |-> NewChapterTask]
    /\ scraper' = [scraper EXCEPT !.pc = "loop"]
    /\ UNCHANGED <<batchVars, pureVars, mainVars, imageVars, guiVars,
                   stop_flag, checkpoint>>

(* the caller raises the flag *)
SetStop ==
    /\ ~stop_flag
    /\ scraper.pc # "returned"
    /\ stop_flag' = TRUE
    /\ UNCHANGED <<batchVars, pureVars, mainVars, imageVars, guiVars,
                   checkpoint, chapters, scraper>>

ChaptersRunning == {c \in Selected : chapters[c].pc \in {"fetch", "images"}}

(* download_chapter, lines 196-201: a worker of the pool takes the task *)
ChapterStart(c) ==
    /\ chapters[c].pc = "queued"
    /\ Cardinality(ChaptersRunning) < ChapterWorkers
    /\ chapters' = [chapters EXCEPT ![c] =
                       IF stop_flag
                       THEN [@ EXCEPT !.pc = "done", !.stopped = TRUE,
                                      !.outcome = "returned", !.value = 0]
                       ELSE [@ EXCEPT !.pc = "fetch", !.dir = TRUE]]
    /\ UNCHANGED <<batchVars, pureVars, mainVars, imageVars, guiVars,
                   stop_flag, checkpoint, scraper>>

(* lines 203-236: get_chapter_images raises, finds no image, or finds     *)
(* some, and a download_image task is submitted for every one of them     *)
ChapterFetch(c) ==
    /\ chapters[c].pc = "fetch"
    /\ \/ chapters' = [chapters EXCEPT ![c].pc = "done",
                                       ![c].outcome = "raised"]
       \/ chapters' = [chapters EXCEPT ![c].pc = "done",
                                       ![c].outcome = "returned",
                                       ![c].value = 0]
       \/ \E n \in 1..MaxImages :
             chapters' = [chapters EXCEPT ![c].pc = "images", ![c].urls = n]
    /\ UNCHANGED <<batchVars, pureVars, mainVars, imageVars, guiVars,
                   stop_flag, checkpoint, scraper>>

(* lines 238-246: one turn of the loop over the completed image tasks;    *)
(* download_image returns True or False                                   *)
ChapterCollect(c) ==
    /\ chapters[c].pc = "images"
    /\ chapters[c].collected < chapters[c].urls
    /\ IF stop_flag
       THEN chapters' = [chapters EXCEPT ![c].pc = "done",
                                         ![c].stopped = TRUE,
                                         ![c].outcome = "returned",
                                         ![c].value = chapters[c].downloaded]
       ELSE \E ok \in BOOLEAN :
               chapters' = [chapters EXCEPT
                               ![c].collected = @ + 1,
                               ![c].downloaded = IF ok THEN @ + 1 ELSE @]
    /\ UNCHANGED <<batchVars, pureVars, mainVars, imageVars, guiVars,
                   stop_flag, checkpoint, scraper>>

(* lines 248-249: the loop is through, the pool of the chapter is shut *)
ChapterReturn(c) ==
    /\ chapters[c].pc = "images"
    /\ chapters[c].collected = chapters[c].urls
    /\ chapters' = [chapters EXCEPT ![c].pc = "done",
                                    ![c].outcome = "returned",
                                    ![c].value = chapters[c].downloaded]
    /\ UNCHANGED <<batchVars, pureVars, mainVars, imageVars, guiVars,
                   stop_flag, checkpoint, scraper>>

(* lines 345-350: as_completed yields a finished task and the flag is read *)
RunYield(c) ==
    /\ scraper.pc = "loop"
    /\ chapters[c].pc = "done"
    /\ c \notin scraper.yielded
    /\ scraper' = IF stop_flag
                  THEN [scraper EXCEPT !.yielded = @ \cup {c}, !.pc = "exit",
                                       !.result = <<FALSE>>]
                  ELSE [scraper EXCEPT !.yielded = @ \cup {c}, !.cur = c,
                                       !.pc = "result"]
    /\ UNCHANGED <<batchVars, pureVars, mainVars, imageVars, guiVars,
                   stop_flag, checkpoint, chapters>>

(* lines 351-353 and 358-359: future.result() returns or raises *)
RunResult ==
    /\ scraper.pc = "result"
    /\ scraper' = IF chapters[scraper.cur].outcome = "raised"
                  THEN [scraper EXCEPT !.pc = "loop"]
                  ELSE [scraper EXCEPT
                           !.pc = "append",
                           !.total_downloaded =
                               @ + chapters[scraper.cur].value]
    /\ UNCHANGED <<batchVars, pureVars, mainVars, imageVars, guiVars,
                   stop_flag, checkpoint, chapters>>

(* lines 355-356; an OSError goes to the handler of line 358 *)
RunAppend ==
    /\ scraper.pc = "append"
    /\ \/ /\ checkpoint' = Append(checkpoint, scraper.cur)
          /\ scraper' = [scraper EXCEPT !.pc = "sleep"]
       \/ /\ checkpoint' = checkpoint
          /\ scraper' = [scraper EXCEPT !.pc = "loop"]
    /\ UNCHANGED <<batchVars, pureVars, mainVars, imageVars, guiVars,
                   stop_flag, chapters>>

(* line 357 *)
RunSleep ==
    /\ scraper.pc = "sleep"
    /\ scraper' = [scraper EXCEPT !.pc = "loop"]
    /\ UNCHANGED <<batchVars, pureVars, mainVars, imageVars, guiVars,
                   stop_flag, checkpoint, chapters>>

(* lines 361-362: every task has been yielded *)
RunComplete ==
    /\ scraper.pc = "loop"
    /\ scraper.yielded = Selected
    /\ scraper' = [scraper EXCEPT !.pc = "exit", !.result = <<TRUE>>]
    /\ UNCHANGED <<batchVars, pureVars, mainVars, imageVars, guiVars,
                   stop_flag, checkpoint, chapters>>

(* leaving the with block of line 339: shutdown(wait=True) *)
(* the pool left without waiting *)
ShutdownNoWait == TRUE

ShutdownWaits == \A c \in Selected : chapters[c].pc = "done"

RunExit ==
    /\ scraper.pc = "exit"
    /\ ShutdownWaits
    /\ scraper' = [scraper EXCEPT !.pc = "returned"]
    /\ UNCHANGED <<batchVars, pureVars, mainVars, imageVars, guiVars,
                   stop_flag, checkpoint, chapters>>

ScraperInit ==
    /\ IdleBatch
    /\ GrayIdle
    /\ NormIdle
    /\ PentIdle
    /\ MoireIdle
    /\ MainIdle
    /\ ImageIdle
    /\ GuiIdle
    /\ stop_flag = FALSE
    /\ checkpoint \in {<<>>} \cup {<<c>> : c \in 1..MaxChapters}
    /\ chapters = <<>>
    /\ \E n \in 1..MaxChapters :
          scraper = [pc |-> "submit", selected |-> 1..n, yielded |-> {},
                     cur |-> 0, total_downloaded |-> 0, result |-> <<>>,
                     checkpoint0 |-> checkpoint]

ScraperNext ==
    \/ RunSubmit
    \/ SetStop
    \/ \E c \in Selected : ChapterStart(c)
    \/ \E c \in Selected : ChapterFetch(c)
    \/ \E c \in Selected : ChapterCollect(c)
    \/ \E c \in Selected : ChapterReturn(c)
    \/ \E c \in Selected : RunYield(c)
    \/ RunResult
    \/ RunAppend
    \/ RunSleep
    \/ RunComplete
    \/ RunExit

ScraperSpec == ScraperInit /\ [][ScraperNext]_vars

----------------------------------------------------------------------------
(* GuiSpec: the Start Download and Stop buttons of MainWindow and the     *)
(* DownloaderThread objects it starts.  thread is the sequence of the     *)
(* threads started so far, the last one being self.download_thread.  A   *)
(* disabled button takes no click.  The finished signal of a thread is    *)
(* delivered to download_finished in the GUI thread, after it is emitted. *)
MaxDownloads == 2       \* download threads started, up to MaxDownloads

(* weebcentral_gui.py, lines 243-247 and 269: the window as constructed *)
NewWindow ==
    [download_btn |-> TRUE, stop_btn |-> FALSE, status |-> "",
     dialog |-> "none", url |-> FALSE]

(* DownloaderThread.__init__, lines 17-22 *)
NewThread == [pc |-> "started", is_running |-> FALSE, success |-> <<>>]

(* the user edits the URL field; url is whether the field has a text *)
EditUrl ==
    /\ gui' = [gui EXCEPT !.url = ~@]
    /\ UNCHANGED <<batchVars, pureVars, mainVars, imageVars, scraperVars,
                   thread>>

(* start_download, lines 289-320 *)
ClickStart ==
    /\ gui.download_btn
    /\ IF ~gui.url
       THEN /\ gui' = [gui EXCEPT !.dialog = "enter_url"]
            /\ UNCHANGED thread
       ELSE /\ Len(thread) < MaxDownloads
            /\ thread' = Append(thread, NewThread)
            /\ gui' = [gui EXCEPT !.status = "Starting download...",
                                  !.download_btn = FALSE,
                                  !.stop_btn = TRUE]
    /\ UNCHANGED <<batchVars, pureVars, mainVars, imageVars, scraperVars>>

(* QThread.isRunning of a thread: from start() until run() has returned,  *)
(* which is at some time after the finished signal is emitted             *)
IsRunning(t) ==
    CASE t.pc \in {"started", "running"} -> {TRUE}
      [] t.pc = "emitted" -> {TRUE, FALSE}
      [] OTHER -> {FALSE}

(* stop_download, lines 322-326: what the window shows after it *)
(* the Start Download button enabled again by a stop *)
WindowAfterStopRestart(g) ==
    [g EXCEPT !.status = "Stopping download...", !.stop_btn = FALSE,
              !.download_btn = TRUE]

WindowAfterStop(g) ==
    [g EXCEPT !.status = "Stopping download...", !.stop_btn = FALSE]

ClickStop ==
    /\ gui.stop_btn
    /\ thread # <<>>
    /\ \E running \in IsRunning(thread[Len(thread)]) :
          IF running
          THEN /\ thread' = [thread EXCEPT ![Len(thread)].is_running = FALSE]
               /\ gui' = WindowAfterStop(gui)
          ELSE UNCHANGED <<gui, thread>>
    /\ UNCHANGED <<batchVars, pureVars, mainVars, imageVars, scraperVars>>

(* DownloaderThread.run, lines 25-27: the thread begins to run *)
ThreadRun(k) ==
    /\ thread[k].pc = "started"
    /\ thread' = [thread EXCEPT ![k].pc = "running", ![k].is_running = TRUE]
    /\ UNCHANGED <<batchVars, pureVars, mainVars, imageVars, scraperVars,
                   gui>>

(* lines 28-29: scraper.run() returns and the signal is emitted *)
ThreadFinish(k) ==
    /\ thread[k].pc = "running"
    /\ \E success \in BOOLEAN :
          thread' = [thread EXCEPT ![k].pc = "emitted",
                                   ![k].success = <<success>>]
    /\ UNCHANGED <<batchVars, pureVars, mainVars, imageVars, scraperVars,
                   gui>>

(* download_finished, lines 354-362 *)
DownloadFinished(k) ==
    /\ thread[k].pc = "emitted"
    /\ thread' = [thread EXCEPT ![k].pc = "finished"]
    /\ gui' = [gui EXCEPT
                  !.download_btn = TRUE,
                  !.stop_btn = FALSE,
                  !.status = IF thread[k].success[1]
                             THEN "Download completed successfully!"
                             ELSE "Download failed. Check logs for details.",
                  !.dialog = IF thread[k].success[1] THEN "success"
                             ELSE "error"]
    /\ UNCHANGED <<batchVars, pureVars, mainVars, imageVars, scraperVars>>

GuiInit ==
    /\ IdleBatch
    /\ GrayIdle
    /\ NormIdle
    /\ PentIdle
    /\ MoireIdle
    /\ MainIdle
    /\ ImageIdle
    /\ ScraperIdle
    /\ gui = NewWindow
    /\ thread = <<>>

GuiNext ==
    \/ EditUrl
    \/ ClickStart
    \/ ClickStop
    \/ \E k \in 1..Len(thread) : ThreadRun(k)
    \/ \E k \in 1..Len(thread) : ThreadFinish(k)
    \/ \E k \in 1..Len(thread) : DownloadFinished(k)

GuiSpec == GuiInit /\ [][GuiNext]_vars

----------------------------------------------------------------------------
(* Properties.  Mirror(e) is the path of the output tree that mirrors the *)
(* input file e: the same relative directory, the same file name.         *)
Mirror(e) == <<e.dir, e.name>>

KindOf(i) == inp[jobs[i].inp].kind

(* a decodable 3-band image with a pixel whose bands are not all equal *)
IsColor(k) ==
    /\ k.verifies
    /\ k.decodes
    /\ k.img.mode = "RGB"
    /\ \E j \in 1..Len(k.img.px) :
          ~(k.img.px[j][1] = k.img.px[j][2] /\ k.img.px[j][2] = k.img.px[j][3])

(* C1: when process_images_in_folder has returned, every regular input    *)
(* file has an output file at its mirrored path, no output file lies      *)
(* anywhere else, and the output directories are exactly the input's.     *)
C1_OutputContract ==
    mainpc = "returned" =>
        /\ \A e \in RegularFiles : out[Mirror(e)].exists
        /\ \A p \in Paths :
              out[p].exists => \E e \in RegularFiles : p = Mirror(e)
        /\ outDirs = Dirs

(* What one unit run alone leaves at its output path, given the input    *)
(* file and the output tree the run found, when no copy or write fails.   *)
SequentialResult(e) ==
    LET k == inp[e].kind
        o == out0[Mirror(e)]
        copied == IF ~o.exists \/ inp[e].mtime > o.mtime
                  THEN FileState(inp[e].mtime, RawOf(e))
                  ELSE o
    IN  IF ~k.verifies THEN copied
        ELSE IF LoadsPixels(k.img) /\ ~k.decodes THEN o
        ELSE IF ~is_grayscale(k.img) THEN copied
        ELSE IF k.decodes THEN FileState(Now, MoireOf(e))
        ELSE o

(* C2: for every pool size and every interleaving the run ends with       *)
(* exactly N output files, N the number of regular input files, each at   *)
(* a mirrored path and holding what a sequential pass leaves there.       *)
C2_ConcurrencyInvariant ==
    mainpc = "returned" =>
        /\ Cardinality({p \in Paths : out[p].exists})
             = Cardinality(RegularFiles)
        /\ \A p \in Paths :
              out[p].exists => \E e \in RegularFiles : p = Mirror(e)
        /\ \A e \in RegularFiles : out[Mirror(e)] = SequentialResult(e)

(* What does hold of the result set: it is the sequential one, whatever   *)
(* the pool size and the order of the units.                              *)
ResultIsSequential ==
    mainpc = "returned" =>
        \A e \in RegularFiles : out[Mirror(e)] = SequentialResult(e)

(* C3: no failure leaves its unit (no future holds an exception), and     *)
(* when the coordinator has returned every job has been submitted and     *)
(* has run to its end, failed units or not.                               *)
C3_FailureContained ==
    /\ \A i \in 1..Len(units) : ~units[i].exc
    /\ mainpc = "returned" =>
          /\ Len(units) = Cardinality(RegularFiles)
          /\ \A i \in 1..Len(units) : units[i].pc = "done"

C3_Witness ==
    /\ mainpc = "returned"
    /\ \E i, j \in 1..Len(units) :
          /\ units[i].outcome = "failed"
          /\ units[j].outcome \in {"written", "copied"}

(* C4: every enumerated job is submitted exactly once (future i is job i, *)
(* the jobs are the regular files, each once); a submitted unit           *)
(* eventually completes; the coordinator returns, and only when every     *)
(* submitted unit has completed.                                          *)
C4_ForkJoin ==
    /\ [](Len(units) <= Len(jobs))
    /\ [](mainpc \in {"join", "returned"} =>
            /\ Len(units) = Len(jobs)
            /\ Len(jobs) = Cardinality(RegularFiles)
            /\ {jobs[i].inp : i \in 1..Len(jobs)} = RegularFiles)
    /\ [](mainpc = "returned" => \A i \in 1..Len(units) : units[i].pc = "done")
    /\ \A i \in 1..MaxJobs :
          (Len(units) >= i) ~> (Len(units) >= i /\ units[i].pc = "done")
    /\ (mainpc = "walk") ~> (mainpc = "returned")

C4_Witness ==
    /\ mainpc = "returned"
    /\ Len(units) = MaxJobs
    /\ \A i \in 1..Len(units) : units[i].pc = "done"

(* C5: in the array normalize_image returns, every position that is 0 in  *)
(* the original is 0 and every position that is 255 in it is 255.         *)
C5_ReferencePoints ==
    nmResult # <<>> =>
        /\ Len(nmResult) = Len(nmOrig)
        /\ \A i \in 1..Len(nmOrig) :
              /\ nmOrig[i] = 0 => nmResult[i] = 0
              /\ nmOrig[i] = 255 => nmResult[i] = 255

C5_Witness ==
    /\ nmResult # <<>>
    /\ \E i, j \in 1..Len(nmOrig) :
          /\ nmOrig[i] = 0 /\ nmProc[i] > 0 /\ nmResult[i] = 0
          /\ nmOrig[j] = 255 /\ nmProc[j] < 255 /\ nmResult[j] = 255

(* C6: every image with a single band is classified Grayscale. *)
C6_SingleChannelIsGray ==
    (gsResult # <<>> /\ Bands(gsImage.mode) = 1) => gsResult[1]

(* C7: an RGB or RGBA image is classified Grayscale exactly when every    *)
(* one of its pixels has r = g = b.                                       *)
C7_ExhaustiveScan ==
    (gsResult # <<>> /\ gsImage.mode \in {"RGB", "RGBA"}) =>
        (gsResult[1] <=>
            \A j \in 1..Len(gsImage.px) :
                /\ gsImage.px[j][1] = gsImage.px[j][2]
                /\ gsImage.px[j][2] = gsImage.px[j][3])

(* an image whose only unequal pixel is the last one scanned *)
C7_Witness ==
    /\ gsResult = <<FALSE>>
    /\ gsImage.mode \in {"RGB", "RGBA"}
    /\ Len(gsImage.px) > 1
    /\ \A j \in 1..(Len(gsImage.px) - 1) :
          /\ gsImage.px[j][1] = gsImage.px[j][2]
          /\ gsImage.px[j][2] = gsImage.px[j][3]

(* C8 as amended: a colour file is classified NonGrayscale; when its copy *)
(* is carried out the output at the mirrored path is the input, bytes and *)
(* modification time; when the copy is skipped the output the run found   *)
(* there, newer or as new, is left as it was.                             *)
C8_CopyThroughFidelity ==
    \A i \in 1..Len(units) :
        IsColor(KindOf(i)) =>
            LET e == jobs[i].inp
                u == units[i]
            IN  /\ u.cls \in {"none", "NonGrayscale"}
                /\ u.pc = "done" =>
                      /\ u.cls = "NonGrayscale"
                      /\ u.outcome \in {"copied", "skipped", "failed"}
                      /\ u.outcome = "copied" =>
                            out[Mirror(e)] = FileState(inp[e].mtime, RawOf(e))
                      /\ u.outcome = "skipped" =>
                            /\ out[Mirror(e)] = out0[Mirror(e)]
                            /\ out[Mirror(e)].exists
                            /\ out[Mirror(e)].mtime >= inp[e].mtime

C8_Witness ==
    \E i \in 1..Len(units) :
        /\ IsColor(KindOf(i))
        /\ jobs[i].inp.dir # "."
        /\ units[i].outcome = "copied"
        /\ out[Mirror(jobs[i].inp)].content = RawOf(jobs[i].inp)

(* C8 as claimed: once the unit of a colour file has completed, the       *)
(* output at the mirrored path is byte-identical to the input.            *)
C8_AlwaysIdentical ==
    \A i \in 1..Len(units) :
        (IsColor(KindOf(i)) /\ units[i].pc = "done") =>
            /\ units[i].cls = "NonGrayscale"
            /\ out[Mirror(jobs[i].inp)].content = RawOf(jobs[i].inp)

(* C9: a unit takes the copy-through decision only for a NonGrayscale or *)
(* Unreadable file, and every such unit that ends has taken it; it copies *)
(* exactly when no output exists or the input is strictly newer than the  *)
(* output; and in a later run over the unchanged input tree it copies     *)
(* none of these files.                                                   *)
Decides(i) ==
    /\ i <= Len(units)
    /\ i <= Len(units')
    /\ units[i].decision = "none"
    /\ units'[i].decision # "none"

C9_CopyIffNewer ==
    [][\A i \in 1..MaxJobs :
          /\ Decides(i) =>
                LET e == jobs[i].inp
                    o == out[Mirror(e)]
                IN  /\ units[i].cls \in {"NonGrayscale", "Unreadable"}
                    /\ units'[i].decision = "copy" <=>
                          (~o.exists \/ inp[e].mtime > o.mtime)
                    /\ run > 1 => units'[i].decision = "skip"
          /\ (/\ i <= Len(units')
              /\ units'[i].pc = "done"
              /\ units'[i].cls \in {"NonGrayscale", "Unreadable"}) =>
                units'[i].decision # "none"]_vars

(* a second run skips a file the first run copied, and the first run had  *)
(* both copied a file and skipped one                                     *)
C9_Witness ==
    /\ run > 1
    /\ \E i \in 1..Len(units) :
          prev[i] = "copied" /\ units[i].decision = "skip"
    /\ \E j \in 1..Len(prev) : prev[j] = "skipped"

(* Under Spec, where copy2 may raise, the same holds with the re-run      *)
(* clause kept to the files whose copy the run before carried out or      *)
(* skipped: a copy that raised before creating the output is tried again. *)
CopyIffNewerUnderFaults ==
    [][\A i \in 1..MaxJobs :
          Decides(i) =>
              LET e == jobs[i].inp
                  o == out[Mirror(e)]
              IN  /\ units[i].cls \in {"NonGrayscale", "Unreadable"}
                  /\ units'[i].decision = "copy" <=>
                        (~o.exists \/ inp[e].mtime > o.mtime)
                  /\ (run > 1 /\ prev[i] \in {"copied", "skipped"}) =>
                        units'[i].decision = "skip"]_vars

(* C10: the unit of a file that cannot be decoded ends without having     *)
(* called the moire transform, having taken the copy-through path, with   *)
(* an output at the mirrored path and no failure.                         *)
C10_UnreadableRecovered ==
    \A i \in 1..Len(units) :
        (~KindOf(i).decodes /\ units[i].pc = "done") =>
            /\ ~units[i].moire
            /\ units[i].decision # "none"
            /\ units[i].outcome # "failed"
            /\ out[Mirror(jobs[i].inp)].exists

(* C11: the output directory of every submitted unit exists, and no unit  *)
(* is submitted before the walk has visited every input directory and     *)
(* every one of them has its output directory, whether the walk created   *)
(* it or found it there.                                                  *)
C11_MirrorBeforeWork ==
    /\ \A i \in 1..Len(units) : jobs[i].outdir \in outDirs
    /\ Len(units) > 0 => walkPos > Len(WalkOrder)
    /\ mainpc \in {"submit", "join", "returned"} => Dirs \subseteq outDirs

(* a unit of directory a has started; the output root was there before    *)
(* the run, the output directory a was not                                *)
C11_Witness ==
    /\ run = 1
    /\ out0[<<".", "p1.jpg">>].exists
    /\ ~out0[<<"a", "p1.jpg">>].exists
    /\ \E i \in 1..Len(units) :
          jobs[i].outdir = "a" /\ units[i].pc # "queued"

(* the intensities of the image handed to pentropy_binarization *)
PentValues == {peImage[k] : k \in 1..Len(peImage)}
PentLow == CHOOSE v \in PentValues : \A w \in PentValues : v <= w
PentHigh == CHOOSE v \in PentValues : \A w \in PentValues : v >= w

(* C12: for an image of one intensity, whichever it is, the function      *)
(* returns, with threshold 127 and a binary image of the image's size.    *)
C12_FlatFallsBack ==
    (peResult # <<>> /\ Cardinality(PentValues) = 1) =>
        /\ peResult[1].threshold = 127
        /\ Len(peResult[1].binary) = Len(peImage)

C12_Witness ==
    /\ peResult # <<>>
    /\ PentValues = {0}
    /\ Len(peImage) > 1
    /\ peResult[1].threshold = 127

(* C13 as claimed: for an image of two intensities a < b the threshold t  *)
(* has a < t < b.                                                         *)
C13_StrictlyBetween ==
    (peResult # <<>> /\ Cardinality(PentValues) = 2) =>
        /\ PentLow < peResult[1].threshold
        /\ peResult[1].threshold < PentHigh

(* C13 as amended: the threshold is a, the first of the equally good      *)
(* splits a..b-1, so a <= t < b; the binary image is 0 where the image    *)
(* is a and 255 where it is b.                                            *)
C13_LowestSeparatingSplit ==
    (peResult # <<>> /\ Cardinality(PentValues) = 2) =>
        /\ peResult[1].threshold = PentLow
        /\ \A k \in 1..Len(peImage) :
              peResult[1].binary[k] = IF peImage[k] = PentHigh THEN 255 ELSE 0

C13_Witness ==
    /\ peResult # <<>>
    /\ PentValues = {20, 200}
    /\ peResult[1].threshold = 20

(* C14 as claimed: the split 254 is never selected, and an image whose    *)
(* intensities are 254 and 255 gets the fallback threshold 127.           *)
C14_Split254NeverTaken ==
    peResult # <<>> =>
        /\ peResult[1].threshold # 254
        /\ PentValues = {254, 255} => peResult[1].threshold = 127

(* C14 as amended: the splits searched are 0..254; the threshold is one   *)
(* of them, never 255; an image whose intensities are 254 and 255 gets    *)
(* the threshold 254, and only an image of one intensity gets the         *)
(* fallback for want of a split.                                          *)
C14_SplitsUpTo254 ==
    peResult # <<>> =>
        /\ peResult[1].threshold \in 0..254
        /\ PentValues = {254, 255} => peResult[1].threshold = 254
        /\ Cardinality(PentValues) = 2 =>
              peResult[1].threshold \in PentLow..(PentHigh - 1)

C14_Witness ==
    /\ peResult # <<>>
    /\ PentValues = {254, 255}
    /\ peResult[1].threshold = 254

(* the positions of the grid the masks were built for *)
RowIx == 0..(rmRows - 1)
ColIx == 0..(rmCols - 1)

(* the unshifted index the inverse shift gives a shifted position, and    *)
(* the shifted position the center shift gives an unshifted index         *)
Unshift(r, c) == <<(r - rmRows \div 2) % rmRows, (c - rmCols \div 2) % rmCols>>
Shift(u, v) == <<(u + rmRows \div 2) % rmRows, (v + rmCols \div 2) % rmCols>>

(* C15: at every position the shifted multiplier is 0 when the position   *)
(* is a peak outside both axis bands, and 1 otherwise.                    *)
C15_SuppressionMask ==
    rmMask # <<>> =>
        \A r \in RowIx, c \in ColIx :
            LET peak == PeakAt(rmPeaks, r, c)
                onAxis == rmMask[1].axis[r][c] = 255
                mult == rmMask[1].unshifted[Unshift(r, c)[1]][Unshift(r, c)[2]]
            IN  /\ rmMask[1].shifted[r][c] \in {0, 255}
                /\ rmMask[1].shifted[r][c] = 0 <=> (peak /\ ~onAxis)
                /\ mult = IF peak /\ ~onAxis THEN 0 ELSE 1

(* a grid with a peak that is suppressed and a peak that is kept *)
C15_Witness ==
    /\ rmMask # <<>>
    /\ \E r \in RowIx, c \in ColIx :
          PeakAt(rmPeaks, r, c) /\ rmMask[1].shifted[r][c] = 0
    /\ \E r \in RowIx, c \in ColIx :
          PeakAt(rmPeaks, r, c) /\ rmMask[1].shifted[r][c] = 255

(* C16: the multiplier of the unshifted coefficient [0][0] is 1, and so   *)
(* is the multiplier of every coefficient that lies in the horizontal or  *)
(* the vertical axis band, whatever the grid size and the Peak Mask.      *)
C16_DCNeverSuppressed ==
    rmMask # <<>> =>
        /\ rmMask[1].unshifted[0][0] = 1
        /\ \A r \in RowIx, c \in ColIx :
              rmMask[1].axis[r][c] = 255 =>
                  rmMask[1].unshifted[Unshift(r, c)[1]][Unshift(r, c)[2]] = 1

(* an odd by odd grid larger than the bands with a peak on the DC term *)
C16_Witness ==
    /\ rmMask # <<>>
    /\ rmRows % 2 = 1 /\ rmCols % 2 = 1
    /\ rmCols > BandWidth
    /\ PeakAt(rmPeaks, rmRows \div 2, rmCols \div 2)
    /\ rmMask[1].unshifted[0][0] = 1

(* the rows of the horizontal band, the columns of the vertical band *)
BandRows == {r \in RowIx : HorizBar(rmRows, rmCols)[r][0] = 255}
BandCols == {c \in ColIx : VerticBar(rmRows, rmCols)[0][c] = 255}

(* C17: on a grid at least as large as the bands, the horizontal band is  *)
(* 23 whole rows and the vertical band 12 whole columns, with as many     *)
(* rows above as below the center row rows // 2 and as many columns left  *)
(* as right of the center column cols // 2.                               *)
C17_BandsCentered ==
    (rmMask # <<>> /\ rmRows >= BandHeight /\ rmCols >= BandWidth) =>
        /\ Cardinality(BandRows) = 23
        /\ Cardinality(BandCols) = 12
        /\ \A r \in RowIx, c \in ColIx :
              rmMask[1].axis[r][c] = 255 <=> (r \in BandRows \/ c \in BandCols)
        /\ Cardinality({r \in BandRows : r < rmRows \div 2})
             = Cardinality({r \in BandRows : r > rmRows \div 2})
        /\ Cardinality({c \in BandCols : c < rmCols \div 2})
             = Cardinality({c \in BandCols : c > rmCols \div 2})

(* What the bands are: rows // 2 - 11 .. rows // 2 + 11, and columns      *)
(* cols // 2 - 6 .. cols // 2 + 5, cut to the grid.                       *)
AxisBandGeometry ==
    rmMask # <<>> =>
        /\ BandRows = {r \in RowIx : /\ rmRows \div 2 - 11 <= r
                                      /\ r <= rmRows \div 2 + 11}
        /\ BandCols = {c \in ColIx : /\ rmCols \div 2 - 6 <= c
                                      /\ c <= rmCols \div 2 + 5}
        /\ \A r \in RowIx, c \in ColIx :
              rmMask[1].axis[r][c] = 255 <=> (r \in BandRows \/ c \in BandCols)

(* the unshifted spectrum, each coefficient standing for itself, and an   *)
(* element-wise product kept as the pair of its factors                   *)
Coefficient(u, v) == <<"F", u, v>>
Spectrum == [row \in 0..(rmRows - 1) |->
             [col \in 0..(rmCols - 1) |-> Coefficient(row, col)]]

(* C18: the multiplier of the unshifted coefficient (u, v) is the shifted *)
(* mask's value at the position the center shift moves (u, v) to; and the *)
(* unshifted spectrum times the inverse-shifted mask is the inverse shift *)
(* of the shifted spectrum times the shifted mask.                        *)
C18_MaskAlignment ==
    rmMask # <<>> =>
        LET shiftedSpectrum == fftshift(rmRows, rmCols, Spectrum)
            product(r, c) ==
                <<shiftedSpectrum[r][c], rmMask[1].shifted[r][c] \div 255>>
            shiftedProduct == [row \in 0..(rmRows - 1) |->
                               [col \in 0..(rmCols - 1) |->
                                   product(row, col)]]
            back == ifftshift(rmRows, rmCols, shiftedProduct)
        IN  \A u \in RowIx, v \in ColIx :
                /\ rmMask[1].unshifted[u][v]
                     = rmMask[1].shifted[Shift(u, v)[1]][Shift(u, v)[2]]
                         \div 255
                /\ shiftedSpectrum[Shift(u, v)[1]][Shift(u, v)[2]]
                     = Spectrum[u][v]
                /\ <<Spectrum[u][v], rmMask[1].unshifted[u][v]>> = back[u][v]

(* a grid of odd width with a suppressed position *)
C18_Witness ==
    /\ rmMask # <<>>
    /\ rmCols % 2 = 1
    /\ \E u \in RowIx, v \in ColIx : rmMask[1].unshifted[u][v] = 0
    /\ \E u \in RowIx, v \in ColIx : rmMask[1].unshifted[u][v] = 1

(* C19: when the suppression mask is all ones (255 at every position of  *)
(* the shifted uint8 mask), the real part of the inverse transform of the *)
(* masked spectrum is the image that went in.                             *)
C19_IdentityRoundTrip ==
    (/\ rmRecon # <<>>
     /\ \A r \in RowIx, c \in ColIx : rmMask[1].shifted[r][c] = 255) =>
        \A r \in RowIx, c \in ColIx :
            rmRecon[1].num[r][c] = rmImage[r][c] * rmRecon[1].den

(* a grid of four pixels, not all alike, with peaks detected on the axes *)
C19_Witness ==
    /\ rmRecon # <<>>
    /\ rmRows * rmCols = 4
    /\ rmPeaks = "all"
    /\ \E r \in RowIx, c \in ColIx : rmImage[r][c] # rmImage[0][0]
    /\ \A r \in RowIx, c \in ColIx : rmMask[1].shifted[r][c] = 255
    /\ \A r \in RowIx, c \in ColIx :
          rmRecon[1].num[r][c] = rmImage[r][c] * rmRecon[1].den

(* C20: the process started on a missing input folder ends with a status *)
(* other than 0, having created no directory and processed no file; the   *)
(* process started on an existing one ends with status 0.                 *)
C20_ExitStatus ==
    exitStatus # <<>> =>
        IF ~inputIsDir
        THEN /\ exitStatus[1] # 0
             /\ out = out0
             /\ outDirs = DirsOf(out0)
             /\ units = <<>>
        ELSE exitStatus[1] = 0

(* What the entry point does: status 0 in both cases; on a missing input  *)
(* folder nothing is created and nothing processed.                       *)
ExitsWithZero ==
    exitStatus # <<>> =>
        /\ exitStatus[1] = 0
        /\ ~inputIsDir =>
              (out = out0 /\ outDirs = DirsOf(out0) /\ units = <<>>)

(* the image of unit i has equal first three bands at every pixel *)
EqualRGB(img) ==
    \A j \in 1..Len(img.px) :
        img.px[j][1] = img.px[j][2] /\ img.px[j][2] = img.px[j][3]

(* what the unit of a readable file that is to be copied through does:    *)
(* it is classified NonGrayscale without a failure, the transform is not  *)
(* entered, and it ends having copied the file to the mirrored path or    *)
(* having left the newer or as new output it found there                  *)
CopiedThrough(i) ==
    LET e == jobs[i].inp
        u == units[i]
    IN  /\ u.cls \in {"none", "NonGrayscale"}
        /\ ~u.moire
        /\ u.pc = "done" =>
              /\ u.cls = "NonGrayscale"
              /\ u.outcome \in {"copied", "skipped"}
              /\ out[Mirror(e)].exists
              /\ u.outcome = "copied" =>
                    out[Mirror(e)] = FileState(inp[e].mtime, RawOf(e))
              /\ u.outcome = "skipped" => out[Mirror(e)] = out0[Mirror(e)]

(* C21 as claimed: a readable image that has not one band, and is not a   *)
(* three-band image with equal bands at every pixel, is copied through.   *)
C21_UnsupportedLayoutCopied ==
    \A i \in 1..Len(units) :
        LET k == KindOf(i)
        IN  (/\ k.verifies /\ k.decodes
             /\ Bands(k.img.mode) # 1
             /\ ~(Bands(k.img.mode) = 3 /\ EqualRGB(k.img))) =>
                CopiedThrough(i)

(* C21 as amended: a readable image that has not one band, and is not an  *)
(* RGB or RGBA image whose first three bands are equal at every pixel, is *)
(* copied through.                                                        *)
C21_NotGrayCopied ==
    \A i \in 1..Len(units) :
        LET k == KindOf(i)
        IN  (/\ k.verifies /\ k.decodes
             /\ Bands(k.img.mode) # 1
             /\ ~(k.img.mode \in {"RGB", "RGBA"} /\ EqualRGB(k.img))) =>
                CopiedThrough(i)

(* a two-band image (LA) has been copied to the mirrored path *)
C21_Witness ==
    \E i \in 1..Len(units) :
        /\ KindOf(i).img.mode = "LA"
        /\ units[i].cls = "NonGrayscale"
        /\ units[i].outcome = "copied"
        /\ out[Mirror(jobs[i].inp)].content = RawOf(jobs[i].inp)

(* the steps of a work unit, each with the steps that may follow it: a    *)
(* failure ends the unit from any of them                                 *)
StepOrder ==
    {<<"queued", "verify">>, <<"verify", "classify">>, <<"verify", "copy">>,
     <<"classify", "moire">>, <<"classify", "copy">>, <<"moire", "forward">>,
     <<"forward", "masking">>, <<"masking", "inverse">>,
     <<"inverse", "recalibrate">>, <<"recalibrate", "write">>,
     <<"write", "done">>, <<"copy", "done">>,
     <<"classify", "done">>, <<"moire", "done">>}

(* C22: the steps of a work unit follow verify, classify, dispatch; the   *)
(* output path changes only in the write or the copy step of a unit whose *)
(* classification is made; a unit is in the transform only when it is     *)
(* classified Grayscale, and the transform goes forward transform,        *)
(* masking, inverse transform, tone recalibration, write.                 *)
C22_IntraFileOrder ==
    [][\A i \in 1..Len(units) :
          /\ Len(units') = Len(units)
          /\ units'[i].pc # units[i].pc =>
                /\ <<units[i].pc, units'[i].pc>> \in StepOrder
                /\ units'[i].pc \in {"moire", "forward", "masking", "inverse",
                                     "recalibrate", "write"} =>
                      units'[i].cls = "Grayscale"
                /\ units'[i].pc = "copy" =>
                      units'[i].cls \in {"Unreadable", "NonGrayscale"}
          /\ out'[jobs[i].outp] # out[jobs[i].outp] =>
                /\ units[i].cls # "none"
                /\ units[i].pc \in {"write", "copy"}
                /\ units'[i].pc = "done"]_vars

(* a Grayscale file has gone through every stage and has been written *)
C22_Witness ==
    \E i \in 1..Len(units) :
        /\ units[i].cls = "Grayscale"
        /\ units[i].pc = "done"
        /\ units[i].outcome = "written"
        /\ out[jobs[i].outp] = FileState(Now, MoireOf(jobs[i].inp))

(* C23: distinct work units have distinct output paths, and an output    *)
(* file changes only in a step of the one unit whose path it is, to       *)
(* content made from that unit's own input file, while every other output *)
(* file stays as it is.                                                   *)
C23_UnitsIsolated ==
    /\ [](\A i, j \in 1..Len(jobs) : i # j => jobs[i].outp # jobs[j].outp)
    /\ [][\A p \in Paths :
            out'[p] # out[p] =>
               \E i \in 1..Len(units) :
                  /\ jobs[i].outp = p
                  /\ units[i].pc \in {"write", "copy"}
                  /\ units'[i].pc = "done"
                  /\ \A j \in 1..Len(units) : j # i => units'[j] = units[j]
                  /\ \A q \in Paths : q # p => out'[q] = out[q]
                  /\ out'[p].exists
                  /\ out'[p].content
                        \in {RawOf(jobs[i].inp), MoireOf(jobs[i].inp)}]_vars

(* two units are at their write or copy at the same time, one of them     *)
(* having the other's file name in another directory                      *)
C23_Witness ==
    \E i, j \in 1..Len(units) :
        /\ i # j
        /\ units[i].pc \in {"write", "copy"}
        /\ units[j].pc \in {"write", "copy"}
        /\ jobs[i].inp.name = jobs[j].inp.name
        /\ jobs[i].outp # jobs[j].outp

(* C24: normalize_image returns on every pair of arrays, the result has  *)
(* the shape of the input and every pixel of it lies in 0..255; with no   *)
(* reference pixel of either kind the averages are 255 and 0, which       *)
(* leaves every pixel where it is (or one below: the float32 quotient     *)
(* times 255 may fall just short of the integer); with the white average  *)
(* equal to the black one the denominator is 1, which sends every pixel   *)
(* above the average to 255.                                              *)
C24_NormalizeTotal ==
    /\ nmOrig # <<>> /\ nmResult = <<>> => ENABLED CallNormalizeImage
    /\ nmResult # <<>> =>
          /\ Len(nmResult) = Len(nmOrig)
          /\ \A i \in 1..Len(nmResult) : nmResult[i] \in 0..255
          /\ (\A i \in 1..Len(nmOrig) : nmOrig[i] \in 1..254) =>
                \A i \in 1..Len(nmResult) :
                    nmResult[i] \in {nmProc[i] - 1, nmProc[i]}
          /\ (/\ \A i \in 1..Len(nmOrig) : nmOrig[i] # 0
              /\ \E i \in 1..Len(nmOrig) : nmOrig[i] = 255
              /\ \A i \in 1..Len(nmOrig) : nmOrig[i] = 255 => nmProc[i] = 0) =>
                \A i \in 1..Len(nmResult) :
                    nmOrig[i] # 255 =>
                       nmResult[i] = IF nmProc[i] >= 1 THEN 255 ELSE 0

(* the white average and the black default are both 0, and a pixel that   *)
(* is no reference point has been rescaled with the denominator 1         *)
C24_Witness ==
    /\ nmResult # <<>>
    /\ \A i \in 1..Len(nmOrig) : nmOrig[i] # 0
    /\ \E i \in 1..Len(nmOrig) : nmOrig[i] = 255 /\ nmProc[i] = 0
    /\ \A i \in 1..Len(nmOrig) : nmOrig[i] = 255 => nmProc[i] = 0
    /\ \E i \in 1..Len(nmOrig) :
          nmOrig[i] # 255 /\ nmProc[i] >= 1 /\ nmResult[i] = 255

C26_GrayscaleAlwaysRewritten ==
    \A i \in 1..Len(units) :
        (units[i].cls = "Grayscale" /\ units[i].pc = "done") =>
            out[jobs[i].outp] = FileState(Now, MoireOf(jobs[i].inp))

(* the same for the files whose pixel data decodes *)
GrayscaleDecodedRewritten ==
    \A i \in 1..Len(units) :
        (units[i].cls = "Grayscale" /\ units[i].pc = "done"
           /\ KindOf(i).decodes) =>
            out[jobs[i].outp] = FileState(Now, MoireOf(jobs[i].inp))

(* C27: download_image makes at most three requests; after its k-th      *)
(* failed attempt it has slept 2, 4, .. 2k seconds, one delay after each  *)
(* failed attempt (2 s, 4 s and 6 s); it returns True exactly when it has *)
(* written the file or found it there not empty (and then made no         *)
(* request), and False otherwise.                                         *)
C27_DownloadImage ==
    /\ dl.requests <= 3
    /\ dl.pc # "caught" => dl.slept = [k \in 1..dl.failures |-> 2 * k]
    /\ dl.pc = "returned" =>
          /\ dl.result \in {<<TRUE>>, <<FALSE>>}
          /\ dl.result[1] = (dl.written \/ dl.file0 = "data")
          /\ dl.file0 = "data" => dl.requests = 0

(* the same with the delays the code has: one between two attempts *)
DownloadImageContract ==
    /\ dl.requests <= 3
    /\ dl.pc = "request" => dl.slept = [k \in 1..dl.failures |-> 2 * k]
    /\ Len(dl.slept) <= 2
    /\ dl.pc = "returned" =>
          /\ dl.result \in {<<TRUE>>, <<FALSE>>}
          /\ dl.result[1] = (dl.written \/ dl.file0 = "data")
          /\ dl.file0 = "data" => dl.requests = 0

C29_Checkpoint ==
    /\ [](scraper.pc # "submit" => Selected = scraper.selected)
    /\ [][checkpoint' # checkpoint =>
            /\ checkpoint' = Append(checkpoint, scraper.cur)
            /\ scraper.cur \in Selected
            /\ chapters[scraper.cur].pc = "done"
            /\ chapters[scraper.cur].outcome = "returned"]_vars

(* a chapter the checkpoint file named before the run was downloaded      *)
(* again, with no image, and its name added once more                     *)
C29_Witness ==
    /\ Len(checkpoint) = 2
    /\ checkpoint[1] = checkpoint[2]
    /\ checkpoint[2] \in Selected
    /\ chapters[checkpoint[2]].value = 0
    /\ chapters[checkpoint[2]].outcome = "returned"

(* the threads started for which download_finished has not been called *)
Unfinished == {k \in 1..Len(thread) : thread[k].pc # "finished"}

(* C30: the Start Download and the Stop button are never both enabled;    *)
(* Stop is enabled only while there is a started thread that has not      *)
(* reported finished; while there is one, Start Download is disabled; and *)
(* there is at most one such thread at a time.                            *)
C30_DownloadStateMachine ==
    /\ ~(gui.download_btn /\ gui.stop_btn)
    /\ gui.stop_btn => Unfinished # {}
    /\ Unfinished # {} => ~gui.download_btn
    /\ Cardinality(Unfinished) <= 1
    /\ Unfinished \subseteq {Len(thread)}

(* a second download has been started after the first one finished, and  *)
(* stopped: its thread still runs and both buttons are disabled           *)
C30_Witness ==
    /\ Len(thread) = 2
    /\ thread[1].pc = "finished"
    /\ thread[2].pc = "running"
    /\ ~thread[2].is_running
    /\ ~gui.stop_btn
    /\ ~gui.download_btn

====
